---- MODULE Spec2Model ----
(***************************************************************************)
(* Model of the two survey-configuration scripts                           *)
(*   src/draft2_updated/draft2_uzy_named.py   (script "draft2")            *)
(*   src/euclid_south/euclid_smudge.py        (script "euclid")            *)
(*                                                                         *)
(* Conventions                                                             *)
(*  - Python None is the string "None"; a None list/pattern is <<>>.       *)
(*  - Weights are fixed point numbers in hundredths (6.0 is 600, 0.75 is   *)
(*    75).  x/2. is x \div 2; the inputs that the code halves are drawn    *)
(*    from even numbers, so the division is exact as it is in floats.      *)
(*  - Times (pair_time, time_needed, scheduled_respect) are minutes.       *)
(*  - Text that is assembled character by character (file names) is a      *)
(*    sequence of one-character strings; survey names and notes are        *)
(*    sequences of the pieces the format expression puts together.         *)
(*  - survey_length is held in eighths of a day, so that 365.25 days and   *)
(*    the half-year points are integers.                                   *)
(***************************************************************************)
EXTENDS Integers, Sequences, FiniteSets, TLC

VARIABLES
    gen_args,       \* arguments of the generator call under test
    gen_called,     \* which generator was called last ("none" before a call)
    gen_result,     \* the list of surveys that call returned
    script,         \* which script is executed
    sys_argv,       \* sys.argv: the command line, one text per argument
    cwd,            \* the working directory the script is started in
    pc,             \* position of the script run
    args,           \* parser.parse_args(): the parsed command line
    extra_info,     \* the provenance dict
    fileroot,       \* fileroot as computed by the script
    neo_night_pattern,          \* after the pattern_dict lookup
    reverse_neo_night_pattern,
    groups,         \* survey groups built so far: name -> list of surveys
    built_order,    \* order in which the groups were generated
    sim_calls,      \* calls of sim_runner: <<[surveys, filename, ...]>>
    raised,         \* exceptions raised so far: <<[at, exc]>>
    fp_step,        \* return_maps: number of add_ steps done
    pix_labels,     \* return_maps: self.pix_labels
    healmaps,       \* return_maps: self.healmaps
    in_poly         \* return_maps: pixels inside the Euclid contour

gen_vars  == <<gen_args, gen_called, gen_result>>
main_vars == <<script, sys_argv, cwd, pc, args, extra_info, fileroot, neo_night_pattern,
               reverse_neo_night_pattern, groups, built_order, sim_calls,
               raised>>
fp_vars   == <<fp_step, pix_labels, healmaps, in_poly>>
vars      == <<gen_args, gen_called, gen_result, script, sys_argv, cwd, pc,
               args, extra_info, fileroot, neo_night_pattern, reverse_neo_night_pattern, groups,
               built_order, sim_calls, raised, fp_step, pix_labels, healmaps,
               in_poly>>

----------------------------------------------------------------------------
(* Small helpers *)

None == "None"

AllFilters == {"u", "g", "r", "i", "z", "y"}

Min(a, b) == IF a < b THEN a ELSE b

\* zip(xs, ys): stops at the shorter list
zip(xs, ys) == [i \in 1..Min(Len(xs), Len(ys)) |-> <<xs[i], ys[i]>>]

\* [val[0] for val in bfs]
Unpack0(bfs) == [i \in 1..Len(bfs) |-> bfs[i][1]]

\* [val[1] for val in bfs]
Unpack1(bfs) == [i \in 1..Len(bfs) |-> bfs[i][2]]

\* a basis function object: its class and the keyword arguments that differ
\* between the terms of a survey
BF(kind) ==
    [kind |-> kind, filtername |-> None, filternames |-> <<>>,
     time_needed |-> 0, gap_max |-> 0, n_obs_desired |-> 0,
     pattern |-> <<>>, footprint |-> <<>>]

\* a detailer object
Detailer(kind) ==
    [kind |-> kind, filtername |-> None, nexp |-> 0,
     min_rot |-> 0, max_rot |-> 0, n_repeat |-> 0]

\* np.min / np.max of camera_rot_limits
np_min(l) == IF l[1] <= l[2] THEN l[1] ELSE l[2]

np_max(l) == IF l[1] >= l[2] THEN l[1] ELSE l[2]

CameraRotDetailer(limits) ==
    [Detailer("CameraRotDetailer") EXCEPT !.min_rot = np_min(limits),
                                          !.max_rot = np_max(limits)]

\* Optional values: <<>> is None, <<v>> is v
Some(v) == <<v>>

IsNone(o) == o = <<>>

\* a survey object: the constructor's class and keyword arguments.  A keyword
\* the call does not pass is <<>> (the library default applies).
\* filtername1 also holds GreedySurvey's filtername.
Survey(cls) ==
    [script |-> <<>>, nexp |-> 0, cls |-> cls,
     basis_functions |-> <<>>, weights |-> <<>>,
     filtername1 |-> None, filtername2 |-> None, exptime |-> 0,
     ideal_pair_time |-> <<>>, survey_note |-> <<>>, survey_name |-> <<>>,
     ignore_obs |-> <<>>, detailers |-> <<>>, seed |-> <<>>,
     min_pair_time |-> <<>>, in_twilight |-> <<>>, az_range |-> <<>>,
     block_size |-> <<>>, area_required |-> <<>>]

----------------------------------------------------------------------------
(* draft2_uzy_named.py: gen_GreedySurveys *)

\* keyword defaults of gen_GreedySurveys
gen_GreedySurveys_defaults ==
    [nexp |-> 2, exptime |-> 30, filters |-> <<"r", "i", "z", "y">>,
     camera_rot_limits |-> <<-80, 80>>,
     ignore_obs |-> <<"DD", "twilight_neo">>,
     m5_weight |-> 300, footprint_weight |-> 75, slewtime_weight |-> 300,
     stayfilter_weight |-> 300, repeat_weight |-> -100]

\* variant: the footprint term comes first
gen_GreedySurveys_bfs_footprint_first(filtername, a) ==
    << <<[BF("FootprintBasisFunction") EXCEPT !.filtername = filtername,
                                              !.footprint = <<"footprints">>],
         a.footprint_weight>>,
       <<[BF("M5DiffBasisFunction") EXCEPT !.filtername = filtername],
         a.m5_weight>>,
       <<[BF("SlewtimeBasisFunction") EXCEPT !.filtername = filtername],
         a.slewtime_weight>>,
       <<[BF("StrictFilterBasisFunction") EXCEPT !.filtername = filtername],
         a.stayfilter_weight>>,
       <<[BF("VisitRepeatBasisFunction") EXCEPT !.gap_max = 2*60],
         a.repeat_weight>>,
       <<BF("ZenithShadowMaskBasisFunction"), 0>>,
       <<BF("MoonAvoidanceBasisFunction"), 0>>,
       <<[BF("FilterLoadedBasisFunction") EXCEPT !.filternames = <<filtername>>],
         0>>,
       <<BF("PlanetMaskBasisFunction"), 0>> >>

\* the (basis function, weight) tuples of one greedy survey
gen_GreedySurveys_bfs(filtername, a) ==
    << <<[BF("M5DiffBasisFunction") EXCEPT !.filtername = filtername],
         a.m5_weight>>,
       <<[BF("FootprintBasisFunction") EXCEPT !.filtername = filtername,
                                              !.footprint = <<"footprints">>],
         a.footprint_weight>>,
       <<[BF("SlewtimeBasisFunction") EXCEPT !.filtername = filtername],
         a.slewtime_weight>>,
       <<[BF("StrictFilterBasisFunction") EXCEPT !.filtername = filtername],
         a.stayfilter_weight>>,
       <<[BF("VisitRepeatBasisFunction") EXCEPT !.gap_max = 2*60],
         a.repeat_weight>>,
       <<BF("ZenithShadowMaskBasisFunction"), 0>>,
       <<BF("MoonAvoidanceBasisFunction"), 0>>,
       <<[BF("FilterLoadedBasisFunction") EXCEPT !.filternames = <<filtername>>],
         0>>,
       <<BF("PlanetMaskBasisFunction"), 0>> >>

\* the detailer list shared by all greedy surveys
gen_GreedySurveys_detailers(a) ==
    <<CameraRotDetailer(a.camera_rot_limits),
      Detailer("Rottep2RotspDesiredDetailer")>>

\* one iteration of the loop over filters
gen_GreedySurveys_survey(filtername, a) ==
    LET bfs == gen_GreedySurveys_bfs(filtername, a)
    IN  [Survey("GreedySurvey") EXCEPT
            !.basis_functions = Unpack0(bfs),
            !.weights = Unpack1(bfs),
            !.exptime = a.exptime,
            !.filtername1 = filtername,
            !.ignore_obs = a.ignore_obs,
            !.nexp = a.nexp,
            !.detailers = gen_GreedySurveys_detailers(a),
            !.survey_name = <<"Twilight greedy survey ", filtername>>,
            !.block_size = Some(1),
            !.seed = Some(42)]

gen_GreedySurveys(a) ==
    [i \in 1..Len(a.filters) |-> gen_GreedySurveys_survey(a.filters[i], a)]

----------------------------------------------------------------------------
(* draft2_uzy_named.py: generate_blobs *)

\* keyword defaults of generate_blobs
generate_blobs_defaults ==
    [nexp |-> 2, exptime |-> 30,
     filter1s |-> <<"u", "u", "g", "r", "i", "z", "y">>,
     filter2s |-> <<"g", "r", "r", "i", "z", "y", "y">>,
     pair_time |-> 33, camera_rot_limits |-> <<-80, 80>>,
     ignore_obs |-> <<"DD", "twilight_neo">>,
     m5_weight |-> 600, footprint_weight |-> 150, slewtime_weight |-> 300,
     stayfilter_weight |-> 300, template_weight |-> 1200,
     u_template_weight |-> 2400, u_nexp1 |-> TRUE, scheduled_respect |-> 45,
     good_seeing |-> [f \in {"g", "r", "i"} |-> 3],
     good_seeing_weight |-> 300, repeat_weight |-> -2000]

generate_blobs_template_weights(a) ==
    [f \in AllFilters |-> IF f = "u" THEN a.u_template_weight
                                     ELSE a.template_weight]

\* variant: the paired terms keep the full weight
generate_blobs_m5_not_halved(filtername, filtername2, a) ==
    IF filtername2 # None
    THEN << <<[BF("M5DiffBasisFunction") EXCEPT !.filtername = filtername],
              a.m5_weight>>,
            <<[BF("M5DiffBasisFunction") EXCEPT !.filtername = filtername2],
              a.m5_weight>> >>
    ELSE << <<[BF("M5DiffBasisFunction") EXCEPT !.filtername = filtername],
              a.m5_weight>> >>

generate_blobs_m5(filtername, filtername2, a) ==
    IF filtername2 # None
    THEN << <<[BF("M5DiffBasisFunction") EXCEPT !.filtername = filtername],
              a.m5_weight \div 2>>,
            <<[BF("M5DiffBasisFunction") EXCEPT !.filtername = filtername2],
              a.m5_weight \div 2>> >>
    ELSE << <<[BF("M5DiffBasisFunction") EXCEPT !.filtername = filtername],
              a.m5_weight>> >>

generate_blobs_footprint(filtername, filtername2, a) ==
    IF filtername2 # None
    THEN << <<[BF("FootprintBasisFunction") EXCEPT
                  !.filtername = filtername, !.footprint = <<"footprints">>],
              a.footprint_weight \div 2>>,
            <<[BF("FootprintBasisFunction") EXCEPT
                  !.filtername = filtername2, !.footprint = <<"footprints">>],
              a.footprint_weight \div 2>> >>
    ELSE << <<[BF("FootprintBasisFunction") EXCEPT
                  !.filtername = filtername, !.footprint = <<"footprints">>],
              a.footprint_weight>> >>

generate_blobs_common(filtername, a) ==
    << <<[BF("SlewtimeBasisFunction") EXCEPT !.filtername = filtername],
         a.slewtime_weight>>,
       <<[BF("StrictFilterBasisFunction") EXCEPT !.filtername = filtername],
         a.stayfilter_weight>>,
       <<[BF("VisitRepeatBasisFunction") EXCEPT !.gap_max = 3*60],
         a.repeat_weight>> >>

generate_blobs_template(filtername, filtername2, a) ==
    LET template_weights == generate_blobs_template_weights(a)
    IN  IF filtername2 # None
        THEN << <<[BF("NObsPerYearBasisFunction") EXCEPT
                      !.filtername = filtername,
                      !.footprint = <<"footprints", filtername>>],
                  template_weights[filtername] \div 2>>,
                <<[BF("NObsPerYearBasisFunction") EXCEPT
                      !.filtername = filtername2,
                      !.footprint = <<"footprints", filtername2>>],
                  template_weights[filtername2] \div 2>> >>
        ELSE << <<[BF("NObsPerYearBasisFunction") EXCEPT
                      !.filtername = filtername,
                      !.footprint = <<"footprints", filtername>>],
                  a.template_weight>> >>

generate_blobs_NGoodSeeing(fn, a) ==
    IF fn \in DOMAIN a.good_seeing
    THEN << <<[BF("NGoodSeeingBasisFunction") EXCEPT
                  !.filtername = fn,
                  !.footprint = <<"footprints", fn>>,
                  !.n_obs_desired = a.good_seeing[fn]],
              a.good_seeing_weight>> >>
    ELSE <<>>

\* variant: a paired survey gets a good-seeing term for its first filter only
generate_blobs_good_seeing_first_only(filtername, filtername2, a) ==
    generate_blobs_NGoodSeeing(filtername, a)

generate_blobs_good_seeing(filtername, filtername2, a) ==
    IF filtername2 # None
    THEN generate_blobs_NGoodSeeing(filtername, a)
         \o generate_blobs_NGoodSeeing(filtername2, a)
    ELSE generate_blobs_NGoodSeeing(filtername, a)

\* [fn for fn in [filtername, filtername2] if fn is not None]
generate_blobs_filternames(filtername, filtername2) ==
    SelectSeq(<<filtername, filtername2>>, LAMBDA fn : fn # None)

\* variant: the time for a pair is required of every survey
generate_blobs_time_needed_always_pair(filtername2, a) ==
    LET times_needed == <<a.pair_time, a.pair_time * 2>>
    IN  times_needed[2]

generate_blobs_time_needed(filtername2, a) ==
    LET times_needed == <<a.pair_time, a.pair_time * 2>>
    IN  IF filtername2 = None THEN times_needed[1] ELSE times_needed[2]

\* variant: the twilight masks are given the stay-in-filter weight
generate_blobs_masks_weighted(filtername, filtername2, a) ==
    << <<[BF("TimeToScheduledBasisFunction") EXCEPT
             !.time_needed = a.scheduled_respect], 0>>,
       <<BF("ZenithShadowMaskBasisFunction"), 0>>,
       <<BF("MoonAvoidanceBasisFunction"), 0>>,
       <<[BF("FilterLoadedBasisFunction") EXCEPT
             !.filternames = generate_blobs_filternames(filtername, filtername2)],
         0>>,
       <<[BF("TimeToTwilightBasisFunction") EXCEPT
             !.time_needed = generate_blobs_time_needed(filtername2, a)],
         a.stayfilter_weight>>,
       <<BF("NotTwilightBasisFunction"), a.stayfilter_weight>>,
       <<BF("PlanetMaskBasisFunction"), 0>> >>

generate_blobs_masks(filtername, filtername2, a) ==
    << <<[BF("TimeToScheduledBasisFunction") EXCEPT
             !.time_needed = a.scheduled_respect], 0>>,
       <<BF("ZenithShadowMaskBasisFunction"), 0>>,
       <<BF("MoonAvoidanceBasisFunction"), 0>>,
       <<[BF("FilterLoadedBasisFunction") EXCEPT
             !.filternames = generate_blobs_filternames(filtername, filtername2)],
         0>>,
       <<[BF("TimeToTwilightBasisFunction") EXCEPT
             !.time_needed = generate_blobs_time_needed(filtername2, a)], 0>>,
       <<BF("NotTwilightBasisFunction"), 0>>,
       <<BF("PlanetMaskBasisFunction"), 0>> >>

generate_blobs_bfs(filtername, filtername2, a) ==
    generate_blobs_m5(filtername, filtername2, a)
    \o generate_blobs_footprint(filtername, filtername2, a)
    \o generate_blobs_common(filtername, a)
    \o generate_blobs_template(filtername, filtername2, a)
    \o generate_blobs_good_seeing(filtername, filtername2, a)
    \o generate_blobs_masks(filtername, filtername2, a)

\* variant: the FilterNexp detailer is appended before TakeAsPairs
generate_blobs_detailers_nexp_first(filtername2, a) ==
    <<CameraRotDetailer(a.camera_rot_limits),
      Detailer("Rottep2RotspDesiredDetailer"),
      Detailer("CloseAltDetailer"),
      Detailer("FlushForSchedDetailer")>>
    \o (IF a.u_nexp1
        THEN <<[Detailer("FilterNexp") EXCEPT !.filtername = "u", !.nexp = 1]>>
        ELSE <<>>)
    \o (IF filtername2 # None
        THEN <<[Detailer("TakeAsPairsDetailer") EXCEPT !.filtername = filtername2]>>
        ELSE <<>>)

generate_blobs_detailers(filtername2, a) ==
    <<CameraRotDetailer(a.camera_rot_limits),
      Detailer("Rottep2RotspDesiredDetailer"),
      Detailer("CloseAltDetailer"),
      Detailer("FlushForSchedDetailer")>>
    \o (IF filtername2 # None
        THEN <<[Detailer("TakeAsPairsDetailer") EXCEPT !.filtername = filtername2]>>
        ELSE <<>>)
    \o (IF a.u_nexp1
        THEN <<[Detailer("FilterNexp") EXCEPT !.filtername = "u", !.nexp = 1]>>
        ELSE <<>>)

\* one iteration of the loop over zip(filter1s, filter2s)
generate_blobs_survey(filtername, filtername2, a) ==
    LET bfs == generate_blobs_bfs(filtername, filtername2, a)
        survey_name == <<"Standard pair blobs ", filtername, "_", filtername2>>
    IN  [Survey("BlobSurvey") EXCEPT
            !.basis_functions = Unpack0(bfs),
            !.weights = Unpack1(bfs),
            !.filtername1 = filtername,
            !.filtername2 = filtername2,
            !.exptime = a.exptime,
            !.ideal_pair_time = Some(a.pair_time),
            !.survey_note = survey_name,
            !.ignore_obs = a.ignore_obs,
            !.nexp = a.nexp,
            !.detailers = generate_blobs_detailers(filtername2, a),
            !.survey_name = survey_name,
            !.min_pair_time = Some(15),
            !.az_range = Some(90),
            !.seed = Some(42)]

\* variant: the surveys are returned last entry first
generate_blobs_reversed(a) ==
    LET pairs == zip(a.filter1s, a.filter2s)
    IN  [i \in 1..Len(pairs) |->
            generate_blobs_survey(pairs[Len(pairs) + 1 - i][1],
                                  pairs[Len(pairs) + 1 - i][2], a)]

generate_blobs(a) ==
    LET pairs == zip(a.filter1s, a.filter2s)
    IN  [i \in 1..Len(pairs) |->
            generate_blobs_survey(pairs[i][1], pairs[i][2], a)]

----------------------------------------------------------------------------
(* draft2_uzy_named.py: generate_twi_blobs *)

\* keyword defaults of generate_twi_blobs
generate_twi_blobs_defaults ==
    [nexp |-> 2, exptime |-> 30,
     filter1s |-> <<"r", "i", "z", "y">>,
     filter2s |-> <<"i", "z", "y", "y">>,
     pair_time |-> 15, camera_rot_limits |-> <<-80, 80>>,
     ignore_obs |-> <<"DD", "twilight_neo">>,
     m5_weight |-> 600, footprint_weight |-> 150, slewtime_weight |-> 300,
     stayfilter_weight |-> 300, template_weight |-> 1200,
     repeat_night_weight |-> <<>>, scheduled_respect |-> 15,
     repeat_weight |-> -100, night_pattern |-> <<>>]

generate_twi_blobs_m5(filtername, filtername2, a) ==
    IF filtername2 # None
    THEN << <<[BF("M5DiffBasisFunction") EXCEPT !.filtername = filtername],
              a.m5_weight \div 2>>,
            <<[BF("M5DiffBasisFunction") EXCEPT !.filtername = filtername2],
              a.m5_weight \div 2>> >>
    ELSE << <<[BF("M5DiffBasisFunction") EXCEPT !.filtername = filtername],
              a.m5_weight>> >>

generate_twi_blobs_footprint(filtername, filtername2, a) ==
    IF filtername2 # None
    THEN << <<[BF("FootprintBasisFunction") EXCEPT
                  !.filtername = filtername, !.footprint = <<"footprints">>],
              a.footprint_weight \div 2>>,
            <<[BF("FootprintBasisFunction") EXCEPT
                  !.filtername = filtername2, !.footprint = <<"footprints">>],
              a.footprint_weight \div 2>> >>
    ELSE << <<[BF("FootprintBasisFunction") EXCEPT
                  !.filtername = filtername, !.footprint = <<"footprints">>],
              a.footprint_weight>> >>

generate_twi_blobs_common(filtername, a) ==
    << <<[BF("SlewtimeBasisFunction") EXCEPT !.filtername = filtername],
         a.slewtime_weight>>,
       <<[BF("StrictFilterBasisFunction") EXCEPT !.filtername = filtername],
         a.stayfilter_weight>>,
       <<[BF("VisitRepeatBasisFunction") EXCEPT !.gap_max = 2*60],
         a.repeat_weight>> >>

generate_twi_blobs_template(filtername, filtername2, a) ==
    IF filtername2 # None
    THEN << <<[BF("NObsPerYearBasisFunction") EXCEPT
                  !.filtername = filtername,
                  !.footprint = <<"footprints", filtername>>],
              a.template_weight \div 2>>,
            <<[BF("NObsPerYearBasisFunction") EXCEPT
                  !.filtername = filtername2,
                  !.footprint = <<"footprints", filtername2>>],
              a.template_weight \div 2>> >>
    ELSE << <<[BF("NObsPerYearBasisFunction") EXCEPT
                  !.filtername = filtername,
                  !.footprint = <<"footprints", filtername>>],
              a.template_weight>> >>

generate_twi_blobs_long_gaps(a) ==
    IF ~IsNone(a.repeat_night_weight)
    THEN << <<[BF("AvoidLongGapsBasisFunction") EXCEPT
                  !.footprint = <<"wfd_footprint">>],
              a.repeat_night_weight[1]>> >>
    ELSE <<>>

\* [fn for fn in [filtername, filtername2] if fn is not None]
generate_twi_blobs_filternames(filtername, filtername2) ==
    SelectSeq(<<filtername, filtername2>>, LAMBDA fn : fn # None)

generate_twi_blobs_time_needed(filtername2, a) ==
    LET times_needed == <<a.pair_time, a.pair_time * 2>>
    IN  IF filtername2 = None THEN times_needed[1] ELSE times_needed[2]

generate_twi_blobs_masks(filtername, filtername2, a) ==
    << <<[BF("TimeToScheduledBasisFunction") EXCEPT
             !.time_needed = a.scheduled_respect], 0>>,
       <<BF("ZenithShadowMaskBasisFunction"), 0>>,
       <<BF("MoonAvoidanceBasisFunction"), 0>>,
       <<[BF("FilterLoadedBasisFunction") EXCEPT
             !.filternames =
                 generate_twi_blobs_filternames(filtername, filtername2)],
         0>>,
       <<[BF("TimeToTwilightBasisFunction") EXCEPT
             !.time_needed = generate_twi_blobs_time_needed(filtername2, a)],
         0>>,
       <<BF("PlanetMaskBasisFunction"), 0>>,
       <<[BF("NightModuloBasisFunction") EXCEPT !.pattern = a.night_pattern],
         0>> >>

generate_twi_blobs_bfs(filtername, filtername2, a) ==
    generate_twi_blobs_m5(filtername, filtername2, a)
    \o generate_twi_blobs_footprint(filtername, filtername2, a)
    \o generate_twi_blobs_common(filtername, a)
    \o generate_twi_blobs_template(filtername, filtername2, a)
    \o generate_twi_blobs_long_gaps(a)
    \o generate_twi_blobs_masks(filtername, filtername2, a)

generate_twi_blobs_detailers(filtername2, a) ==
    <<CameraRotDetailer(a.camera_rot_limits),
      Detailer("Rottep2RotspDesiredDetailer"),
      Detailer("CloseAltDetailer"),
      Detailer("FlushForSchedDetailer")>>
    \o (IF filtername2 # None
        THEN <<[Detailer("TakeAsPairsDetailer") EXCEPT !.filtername = filtername2]>>
        ELSE <<>>)

\* one iteration of the loop over zip(filter1s, filter2s)
generate_twi_blobs_survey(filtername, filtername2, a) ==
    LET bfs == generate_twi_blobs_bfs(filtername, filtername2, a)
        survey_note == IF filtername2 = None
                       THEN <<"blob_twi, ", filtername>>
                       ELSE <<"blob_twi, ", filtername, filtername2>>
        survey_name == IF filtername2 = None
                       THEN <<"Twilight pair blob ", filtername>>
                       ELSE <<"Twilight pair blob ", filtername, "_", filtername2>>
    IN  [Survey("BlobSurvey") EXCEPT
            !.basis_functions = Unpack0(bfs),
            !.weights = Unpack1(bfs),
            !.filtername1 = filtername,
            !.filtername2 = filtername2,
            !.exptime = a.exptime,
            !.ideal_pair_time = Some(a.pair_time),
            !.survey_note = survey_note,
            !.ignore_obs = a.ignore_obs,
            !.nexp = a.nexp,
            !.detailers = generate_twi_blobs_detailers(filtername2, a),
            !.survey_name = survey_name,
            !.min_pair_time = Some(10),
            !.az_range = Some(90),
            !.in_twilight = Some(TRUE),
            !.seed = Some(42)]

\* variant: one detailer list is created before the loop and shared by the
\* surveys, so every survey sees the TakeAsPairs detailers of all iterations
generate_twi_blobs_shared_detailers(a) ==
    LET pairs == zip(a.filter1s, a.filter2s)
        paired == SelectSeq(pairs, LAMBDA pr : pr[2] # None)
        shared == <<CameraRotDetailer(a.camera_rot_limits),
                    Detailer("Rottep2RotspDesiredDetailer"),
                    Detailer("CloseAltDetailer"),
                    Detailer("FlushForSchedDetailer")>>
                  \o [k \in 1..Len(paired) |->
                         [Detailer("TakeAsPairsDetailer") EXCEPT
                             !.filtername = paired[k][2]]]
    IN  [i \in 1..Len(pairs) |->
            [generate_twi_blobs_survey(pairs[i][1], pairs[i][2], a) EXCEPT
                !.detailers = shared]]

generate_twi_blobs(a) ==
    LET pairs == zip(a.filter1s, a.filter2s)
    IN  [i \in 1..Len(pairs) |->
            generate_twi_blobs_survey(pairs[i][1], pairs[i][2], a)]

----------------------------------------------------------------------------
(* draft2_uzy_named.py: generate_twilight_neo *)

\* keyword defaults of generate_twilight_neo; filters is a string, iterated
\* character by character
generate_twilight_neo_defaults ==
    [night_pattern |-> <<>>, nexp |-> 1, exptime |-> 15,
     ideal_pair_time |-> 5, camera_rot_limits |-> <<-80, 80>>,
     footprint_weight |-> 10, slewtime_weight |-> 300,
     stayfilter_weight |-> 300, area_required |-> <<>>,
     filters |-> <<"r", "i", "z">>, n_repeat |-> 3]

\* constant_fp after the loop of set_footprint calls: the filters it was set
\* for, in call order, all with the one ecliptic target map
generate_twilight_neo_constant_fp(a) ==
    <<"ConstantFootprint">> \o a.filters

\* variant: the high-sun limit is left out
generate_twilight_neo_bfs_no_sun_limit(filtername, a) ==
    << <<[BF("FootprintBasisFunction") EXCEPT
             !.filtername = filtername,
             !.footprint = generate_twilight_neo_constant_fp(a)],
         a.footprint_weight>>,
       <<[BF("SlewtimeBasisFunction") EXCEPT !.filtername = filtername],
         a.slewtime_weight>>,
       <<[BF("StrictFilterBasisFunction") EXCEPT !.filtername = filtername],
         a.stayfilter_weight>>,
       <<BF("NearSunTwilightBasisFunction"), 0>>,
       <<BF("ZenithShadowMaskBasisFunction"), 0>>,
       <<BF("MoonAvoidanceBasisFunction"), 0>>,
       <<[BF("FilterLoadedBasisFunction") EXCEPT !.filternames = <<filtername>>],
         0>>,
       <<BF("PlanetMaskBasisFunction"), 0>>,
       <<BF("SolarElongationMaskBasisFunction"), 0>>,
       <<[BF("NightModuloBasisFunction") EXCEPT !.pattern = a.night_pattern],
         0>> >>

generate_twilight_neo_bfs(filtername, a) ==
    << <<[BF("FootprintBasisFunction") EXCEPT
             !.filtername = filtername,
             !.footprint = generate_twilight_neo_constant_fp(a)],
         a.footprint_weight>>,
       <<[BF("SlewtimeBasisFunction") EXCEPT !.filtername = filtername],
         a.slewtime_weight>>,
       <<[BF("StrictFilterBasisFunction") EXCEPT !.filtername = filtername],
         a.stayfilter_weight>>,
       <<BF("NearSunTwilightBasisFunction"), 0>>,
       <<BF("ZenithShadowMaskBasisFunction"), 0>>,
       <<BF("MoonAvoidanceBasisFunction"), 0>>,
       <<[BF("FilterLoadedBasisFunction") EXCEPT !.filternames = <<filtername>>],
         0>>,
       <<BF("PlanetMaskBasisFunction"), 0>>,
       <<BF("SolarElongationMaskBasisFunction"), 0>>,
       <<[BF("NightModuloBasisFunction") EXCEPT !.pattern = a.night_pattern],
         0>>,
       <<BF("SunAltHighLimitBasisFunction"), 0>> >>

generate_twilight_neo_detailers(a) ==
    <<CameraRotDetailer(a.camera_rot_limits),
      Detailer("CloseAltDetailer"),
      [Detailer("TwilightTripleDetailer") EXCEPT !.n_repeat = a.n_repeat]>>

\* variant: the NEO surveys do not ignore the blob observations
generate_twilight_neo_survey_counts_blobs(filtername, a) ==
    LET bfs == generate_twilight_neo_bfs(filtername, a)
    IN  [Survey("BlobSurvey") EXCEPT
            !.basis_functions = Unpack0(bfs),
            !.weights = Unpack1(bfs),
            !.filtername1 = filtername,
            !.filtername2 = None,
            !.ideal_pair_time = Some(a.ideal_pair_time),
            !.exptime = a.exptime,
            !.survey_note = <<"twilight_neo">>,
            !.ignore_obs = <<"DD", "greedy">>,
            !.nexp = a.nexp,
            !.detailers = generate_twilight_neo_detailers(a),
            !.az_range = Some(180),
            !.area_required = a.area_required,
            !.survey_name = <<"Near Sun twilight survey ", filtername>>]

\* one iteration of the loop over the characters of filters
generate_twilight_neo_survey(filtername, a) ==
    LET bfs == generate_twilight_neo_bfs(filtername, a)
    IN  [Survey("BlobSurvey") EXCEPT
            !.basis_functions = Unpack0(bfs),
            !.weights = Unpack1(bfs),
            !.filtername1 = filtername,
            !.filtername2 = None,
            !.ideal_pair_time = Some(a.ideal_pair_time),
            !.exptime = a.exptime,
            !.survey_note = <<"twilight_neo">>,
            !.ignore_obs = <<"DD", "greedy", "blob">>,
            !.nexp = a.nexp,
            !.detailers = generate_twilight_neo_detailers(a),
            !.az_range = Some(180),
            !.area_required = a.area_required,
            !.survey_name = <<"Near Sun twilight survey ", filtername>>]

generate_twilight_neo(a) ==
    [i \in 1..Len(a.filters) |-> generate_twilight_neo_survey(a.filters[i], a)]

----------------------------------------------------------------------------
(* euclid_smudge.py: euclid_gen_GreedySurveys *)

\* keyword defaults of euclid_gen_GreedySurveys
euclid_gen_GreedySurveys_defaults ==
    [nexp |-> 2, exptime |-> 30, filters |-> <<"r", "i", "z", "y">>,
     camera_rot_limits |-> <<-80, 80>>,
     ignore_obs |-> <<"DD", "twilight_neo">>,
     m5_weight |-> 300, footprint_weight |-> 75, slewtime_weight |-> 300,
     stayfilter_weight |-> 300, repeat_weight |-> -100]

\* the (basis function, weight) tuples of one greedy survey
euclid_gen_GreedySurveys_bfs(filtername, a) ==
    << <<[BF("M5DiffBasisFunction") EXCEPT !.filtername = filtername],
         a.m5_weight>>,
       <<[BF("FootprintBasisFunction") EXCEPT !.filtername = filtername,
                                              !.footprint = <<"footprints">>],
         a.footprint_weight>>,
       <<[BF("SlewtimeBasisFunction") EXCEPT !.filtername = filtername],
         a.slewtime_weight>>,
       <<[BF("StrictFilterBasisFunction") EXCEPT !.filtername = filtername],
         a.stayfilter_weight>>,
       <<[BF("VisitRepeatBasisFunction") EXCEPT !.gap_max = 2*60],
         a.repeat_weight>>,
       <<BF("ZenithShadowMaskBasisFunction"), 0>>,
       <<BF("MoonAvoidanceBasisFunction"), 0>>,
       <<[BF("FilterLoadedBasisFunction") EXCEPT !.filternames = <<filtername>>],
         0>>,
       <<BF("PlanetMaskBasisFunction"), 0>> >>

\* the detailer list shared by all greedy surveys
euclid_gen_GreedySurveys_detailers(a) ==
    <<CameraRotDetailer(a.camera_rot_limits),
      Detailer("Rottep2RotspDesiredDetailer")>>

\* one iteration of the loop over filters
euclid_gen_GreedySurveys_survey(filtername, a) ==
    LET bfs == euclid_gen_GreedySurveys_bfs(filtername, a)
    IN  [Survey("GreedySurvey") EXCEPT
            !.basis_functions = Unpack0(bfs),
            !.weights = Unpack1(bfs),
            !.exptime = a.exptime,
            !.filtername1 = filtername,
            !.ignore_obs = a.ignore_obs,
            !.nexp = a.nexp,
            !.detailers = euclid_gen_GreedySurveys_detailers(a),
            !.survey_name = <<"greedy">>,
            !.block_size = Some(1),
            !.seed = Some(42)]

euclid_gen_GreedySurveys(a) ==
    [i \in 1..Len(a.filters) |-> euclid_gen_GreedySurveys_survey(a.filters[i], a)]

----------------------------------------------------------------------------
(* euclid_smudge.py: euclid_generate_blobs *)

\* keyword defaults of euclid_generate_blobs
euclid_generate_blobs_defaults ==
    [nexp |-> 2, exptime |-> 30,
     filter1s |-> <<"u", "u", "g", "r", "i", "z", "y">>,
     filter2s |-> <<"g", "r", "r", "i", "z", "y", "y">>,
     pair_time |-> 33, camera_rot_limits |-> <<-80, 80>>,
     ignore_obs |-> <<"DD", "twilight_neo">>,
     m5_weight |-> 600, footprint_weight |-> 150, slewtime_weight |-> 300,
     stayfilter_weight |-> 300, template_weight |-> 1200,
     u_template_weight |-> 2400, u_nexp1 |-> TRUE, scheduled_respect |-> 45,
     good_seeing |-> [f \in {"g", "r", "i"} |-> 3],
     good_seeing_weight |-> 300, repeat_weight |-> -2000]

euclid_generate_blobs_template_weights(a) ==
    [f \in AllFilters |-> IF f = "u" THEN a.u_template_weight
                                     ELSE a.template_weight]

euclid_generate_blobs_m5(filtername, filtername2, a) ==
    IF filtername2 # None
    THEN << <<[BF("M5DiffBasisFunction") EXCEPT !.filtername = filtername],
              a.m5_weight \div 2>>,
            <<[BF("M5DiffBasisFunction") EXCEPT !.filtername = filtername2],
              a.m5_weight \div 2>> >>
    ELSE << <<[BF("M5DiffBasisFunction") EXCEPT !.filtername = filtername],
              a.m5_weight>> >>

euclid_generate_blobs_footprint(filtername, filtername2, a) ==
    IF filtername2 # None
    THEN << <<[BF("FootprintBasisFunction") EXCEPT
                  !.filtername = filtername, !.footprint = <<"footprints">>],
              a.footprint_weight \div 2>>,
            <<[BF("FootprintBasisFunction") EXCEPT
                  !.filtername = filtername2, !.footprint = <<"footprints">>],
              a.footprint_weight \div 2>> >>
    ELSE << <<[BF("FootprintBasisFunction") EXCEPT
                  !.filtername = filtername, !.footprint = <<"footprints">>],
              a.footprint_weight>> >>

euclid_generate_blobs_common(filtername, a) ==
    << <<[BF("SlewtimeBasisFunction") EXCEPT !.filtername = filtername],
         a.slewtime_weight>>,
       <<[BF("StrictFilterBasisFunction") EXCEPT !.filtername = filtername],
         a.stayfilter_weight>>,
       <<[BF("VisitRepeatBasisFunction") EXCEPT !.gap_max = 3*60],
         a.repeat_weight>> >>

\* variant: the unpaired term is weighted from template_weights in this
\* script only
euclid_generate_blobs_template_per_filter(filtername, filtername2, a) ==
    LET template_weights == euclid_generate_blobs_template_weights(a)
    IN  IF filtername2 # None
        THEN << <<[BF("NObsPerYearBasisFunction") EXCEPT
                      !.filtername = filtername,
                      !.footprint = <<"footprints", filtername>>],
                  template_weights[filtername] \div 2>>,
                <<[BF("NObsPerYearBasisFunction") EXCEPT
                      !.filtername = filtername2,
                      !.footprint = <<"footprints", filtername2>>],
                  template_weights[filtername2] \div 2>> >>
        ELSE << <<[BF("NObsPerYearBasisFunction") EXCEPT
                      !.filtername = filtername,
                      !.footprint = <<"footprints", filtername>>],
                  template_weights[filtername]>> >>

euclid_generate_blobs_template(filtername, filtername2, a) ==
    LET template_weights == euclid_generate_blobs_template_weights(a)
    IN  IF filtername2 # None
        THEN << <<[BF("NObsPerYearBasisFunction") EXCEPT
                      !.filtername = filtername,
                      !.footprint = <<"footprints", filtername>>],
                  template_weights[filtername] \div 2>>,
                <<[BF("NObsPerYearBasisFunction") EXCEPT
                      !.filtername = filtername2,
                      !.footprint = <<"footprints", filtername2>>],
                  template_weights[filtername2] \div 2>> >>
        ELSE << <<[BF("NObsPerYearBasisFunction") EXCEPT
                      !.filtername = filtername,
                      !.footprint = <<"footprints", filtername>>],
                  a.template_weight>> >>

euclid_generate_blobs_NGoodSeeing(fn, a) ==
    IF fn \in DOMAIN a.good_seeing
    THEN << <<[BF("NGoodSeeingBasisFunction") EXCEPT
                  !.filtername = fn,
                  !.footprint = <<"footprints", fn>>,
                  !.n_obs_desired = a.good_seeing[fn]],
              a.good_seeing_weight>> >>
    ELSE <<>>

euclid_generate_blobs_good_seeing(filtername, filtername2, a) ==
    IF filtername2 # None
    THEN euclid_generate_blobs_NGoodSeeing(filtername, a)
         \o euclid_generate_blobs_NGoodSeeing(filtername2, a)
    ELSE euclid_generate_blobs_NGoodSeeing(filtername, a)

\* [fn for fn in [filtername, filtername2] if fn is not None]
euclid_generate_blobs_filternames(filtername, filtername2) ==
    SelectSeq(<<filtername, filtername2>>, LAMBDA fn : fn # None)

euclid_generate_blobs_time_needed(filtername2, a) ==
    LET times_needed == <<a.pair_time, a.pair_time * 2>>
    IN  IF filtername2 = None THEN times_needed[1] ELSE times_needed[2]

euclid_generate_blobs_masks(filtername, filtername2, a) ==
    << <<[BF("TimeToScheduledBasisFunction") EXCEPT
             !.time_needed = a.scheduled_respect], 0>>,
       <<BF("ZenithShadowMaskBasisFunction"), 0>>,
       <<BF("MoonAvoidanceBasisFunction"), 0>>,
       <<[BF("FilterLoadedBasisFunction") EXCEPT
             !.filternames = euclid_generate_blobs_filternames(filtername, filtername2)],
         0>>,
       <<[BF("TimeToTwilightBasisFunction") EXCEPT
             !.time_needed = euclid_generate_blobs_time_needed(filtername2, a)], 0>>,
       <<BF("NotTwilightBasisFunction"), 0>>,
       <<BF("PlanetMaskBasisFunction"), 0>> >>

euclid_generate_blobs_bfs(filtername, filtername2, a) ==
    euclid_generate_blobs_m5(filtername, filtername2, a)
    \o euclid_generate_blobs_footprint(filtername, filtername2, a)
    \o euclid_generate_blobs_common(filtername, a)
    \o euclid_generate_blobs_template(filtername, filtername2, a)
    \o euclid_generate_blobs_good_seeing(filtername, filtername2, a)
    \o euclid_generate_blobs_masks(filtername, filtername2, a)

euclid_generate_blobs_detailers(filtername2, a) ==
    <<CameraRotDetailer(a.camera_rot_limits),
      Detailer("Rottep2RotspDesiredDetailer"),
      Detailer("CloseAltDetailer"),
      Detailer("FlushForSchedDetailer")>>
    \o (IF filtername2 # None
        THEN <<[Detailer("TakeAsPairsDetailer") EXCEPT !.filtername = filtername2]>>
        ELSE <<>>)
    \o (IF a.u_nexp1
        THEN <<[Detailer("FilterNexp") EXCEPT !.filtername = "u", !.nexp = 1]>>
        ELSE <<>>)

\* one iteration of the loop over zip(filter1s, filter2s)
euclid_generate_blobs_survey(filtername, filtername2, a) ==
    LET bfs == euclid_generate_blobs_bfs(filtername, filtername2, a)
        survey_name == IF filtername2 = None
                       THEN <<"blob, ", filtername>>
                       ELSE <<"blob, ", filtername, filtername2>>
    IN  [Survey("BlobSurvey") EXCEPT
            !.basis_functions = Unpack0(bfs),
            !.weights = Unpack1(bfs),
            !.filtername1 = filtername,
            !.filtername2 = filtername2,
            !.exptime = a.exptime,
            !.ideal_pair_time = Some(a.pair_time),
            !.survey_note = survey_name,
            !.ignore_obs = a.ignore_obs,
            !.nexp = a.nexp,
            !.detailers = euclid_generate_blobs_detailers(filtername2, a),
            !.min_pair_time = Some(15),
            !.az_range = Some(90),
            !.seed = Some(42)]

euclid_generate_blobs(a) ==
    LET pairs == zip(a.filter1s, a.filter2s)
    IN  [i \in 1..Len(pairs) |->
            euclid_generate_blobs_survey(pairs[i][1], pairs[i][2], a)]

----------------------------------------------------------------------------
(* euclid_smudge.py: euclid_generate_twi_blobs *)

\* keyword defaults of euclid_generate_twi_blobs
euclid_generate_twi_blobs_defaults ==
    [nexp |-> 2, exptime |-> 30,
     filter1s |-> <<"r", "i", "z", "y">>,
     filter2s |-> <<"i", "z", "y", "y">>,
     pair_time |-> 15, camera_rot_limits |-> <<-80, 80>>,
     ignore_obs |-> <<"DD", "twilight_neo">>,
     m5_weight |-> 600, footprint_weight |-> 150, slewtime_weight |-> 300,
     stayfilter_weight |-> 300, template_weight |-> 1200,
     repeat_night_weight |-> <<>>, scheduled_respect |-> 15,
     repeat_weight |-> -100, night_pattern |-> <<>>]

euclid_generate_twi_blobs_m5(filtername, filtername2, a) ==
    IF filtername2 # None
    THEN << <<[BF("M5DiffBasisFunction") EXCEPT !.filtername = filtername],
              a.m5_weight \div 2>>,
            <<[BF("M5DiffBasisFunction") EXCEPT !.filtername = filtername2],
              a.m5_weight \div 2>> >>
    ELSE << <<[BF("M5DiffBasisFunction") EXCEPT !.filtername = filtername],
              a.m5_weight>> >>

euclid_generate_twi_blobs_footprint(filtername, filtername2, a) ==
    IF filtername2 # None
    THEN << <<[BF("FootprintBasisFunction") EXCEPT
                  !.filtername = filtername, !.footprint = <<"footprints">>],
              a.footprint_weight \div 2>>,
            <<[BF("FootprintBasisFunction") EXCEPT
                  !.filtername = filtername2, !.footprint = <<"footprints">>],
              a.footprint_weight \div 2>> >>
    ELSE << <<[BF("FootprintBasisFunction") EXCEPT
                  !.filtername = filtername, !.footprint = <<"footprints">>],
              a.footprint_weight>> >>

euclid_generate_twi_blobs_common(filtername, a) ==
    << <<[BF("SlewtimeBasisFunction") EXCEPT !.filtername = filtername],
         a.slewtime_weight>>,
       <<[BF("StrictFilterBasisFunction") EXCEPT !.filtername = filtername],
         a.stayfilter_weight>>,
       <<[BF("VisitRepeatBasisFunction") EXCEPT !.gap_max = 2*60],
         a.repeat_weight>> >>

euclid_generate_twi_blobs_template(filtername, filtername2, a) ==
    IF filtername2 # None
    THEN << <<[BF("NObsPerYearBasisFunction") EXCEPT
                  !.filtername = filtername,
                  !.footprint = <<"footprints", filtername>>],
              a.template_weight \div 2>>,
            <<[BF("NObsPerYearBasisFunction") EXCEPT
                  !.filtername = filtername2,
                  !.footprint = <<"footprints", filtername2>>],
              a.template_weight \div 2>> >>
    ELSE << <<[BF("NObsPerYearBasisFunction") EXCEPT
                  !.filtername = filtername,
                  !.footprint = <<"footprints", filtername>>],
              a.template_weight>> >>

euclid_generate_twi_blobs_long_gaps(a) ==
    IF ~IsNone(a.repeat_night_weight)
    THEN << <<[BF("AvoidLongGapsBasisFunction") EXCEPT
                  !.footprint = <<"wfd_footprint">>],
              a.repeat_night_weight[1]>> >>
    ELSE <<>>

\* [fn for fn in [filtername, filtername2] if fn is not None]
euclid_generate_twi_blobs_filternames(filtername, filtername2) ==
    SelectSeq(<<filtername, filtername2>>, LAMBDA fn : fn # None)

euclid_generate_twi_blobs_time_needed(filtername2, a) ==
    LET times_needed == <<a.pair_time, a.pair_time * 2>>
    IN  IF filtername2 = None THEN times_needed[1] ELSE times_needed[2]

euclid_generate_twi_blobs_masks(filtername, filtername2, a) ==
    << <<[BF("TimeToScheduledBasisFunction") EXCEPT
             !.time_needed = a.scheduled_respect], 0>>,
       <<BF("ZenithShadowMaskBasisFunction"), 0>>,
       <<BF("MoonAvoidanceBasisFunction"), 0>>,
       <<[BF("FilterLoadedBasisFunction") EXCEPT
             !.filternames =
                 euclid_generate_twi_blobs_filternames(filtername, filtername2)],
         0>>,
       <<[BF("TimeToTwilightBasisFunction") EXCEPT
             !.time_needed = euclid_generate_twi_blobs_time_needed(filtername2, a)],
         0>>,
       <<BF("PlanetMaskBasisFunction"), 0>>,
       <<[BF("NightModuloBasisFunction") EXCEPT !.pattern = a.night_pattern],
         0>> >>

euclid_generate_twi_blobs_bfs(filtername, filtername2, a) ==
    euclid_generate_twi_blobs_m5(filtername, filtername2, a)
    \o euclid_generate_twi_blobs_footprint(filtername, filtername2, a)
    \o euclid_generate_twi_blobs_common(filtername, a)
    \o euclid_generate_twi_blobs_template(filtername, filtername2, a)
    \o euclid_generate_twi_blobs_long_gaps(a)
    \o euclid_generate_twi_blobs_masks(filtername, filtername2, a)

euclid_generate_twi_blobs_detailers(filtername2, a) ==
    <<CameraRotDetailer(a.camera_rot_limits),
      Detailer("Rottep2RotspDesiredDetailer"),
      Detailer("CloseAltDetailer"),
      Detailer("FlushForSchedDetailer")>>
    \o (IF filtername2 # None
        THEN <<[Detailer("TakeAsPairsDetailer") EXCEPT !.filtername = filtername2]>>
        ELSE <<>>)

\* one iteration of the loop over zip(filter1s, filter2s)
euclid_generate_twi_blobs_survey(filtername, filtername2, a) ==
    LET bfs == euclid_generate_twi_blobs_bfs(filtername, filtername2, a)
        survey_name == IF filtername2 = None
                       THEN <<"blob_twi, ", filtername>>
                       ELSE <<"blob_twi, ", filtername, filtername2>>
    IN  [Survey("BlobSurvey") EXCEPT
            !.basis_functions = Unpack0(bfs),
            !.weights = Unpack1(bfs),
            !.filtername1 = filtername,
            !.filtername2 = filtername2,
            !.exptime = a.exptime,
            !.ideal_pair_time = Some(a.pair_time),
            !.survey_note = survey_name,
            !.ignore_obs = a.ignore_obs,
            !.nexp = a.nexp,
            !.detailers = euclid_generate_twi_blobs_detailers(filtername2, a),
            !.min_pair_time = Some(10),
            !.az_range = Some(90),
            !.in_twilight = Some(TRUE),
            !.seed = Some(42)]

euclid_generate_twi_blobs(a) ==
    LET pairs == zip(a.filter1s, a.filter2s)
    IN  [i \in 1..Len(pairs) |->
            euclid_generate_twi_blobs_survey(pairs[i][1], pairs[i][2], a)]

----------------------------------------------------------------------------
(* euclid_smudge.py: euclid_generate_twilight_neo *)

\* keyword defaults of euclid_generate_twilight_neo; filters is a string, iterated
\* character by character
euclid_generate_twilight_neo_defaults ==
    [night_pattern |-> <<>>, nexp |-> 1, exptime |-> 15,
     ideal_pair_time |-> 5, camera_rot_limits |-> <<-80, 80>>,
     footprint_weight |-> 10, slewtime_weight |-> 300,
     stayfilter_weight |-> 300, area_required |-> <<>>,
     filters |-> <<"r", "i", "z">>, n_repeat |-> 3]

\* constant_fp after the loop of set_footprint calls: the filters it was set
\* for, in call order, all with the one ecliptic target map
euclid_generate_twilight_neo_constant_fp(a) ==
    <<"ConstantFootprint">> \o a.filters

euclid_generate_twilight_neo_bfs(filtername, a) ==
    << <<[BF("FootprintBasisFunction") EXCEPT
             !.filtername = filtername,
             !.footprint = euclid_generate_twilight_neo_constant_fp(a)],
         a.footprint_weight>>,
       <<[BF("SlewtimeBasisFunction") EXCEPT !.filtername = filtername],
         a.slewtime_weight>>,
       <<[BF("StrictFilterBasisFunction") EXCEPT !.filtername = filtername],
         a.stayfilter_weight>>,
       <<BF("NearSunTwilightBasisFunction"), 0>>,
       <<BF("ZenithShadowMaskBasisFunction"), 0>>,
       <<BF("MoonAvoidanceBasisFunction"), 0>>,
       <<[BF("FilterLoadedBasisFunction") EXCEPT !.filternames = <<filtername>>],
         0>>,
       <<BF("PlanetMaskBasisFunction"), 0>>,
       <<BF("SolarElongationMaskBasisFunction"), 0>>,
       <<[BF("NightModuloBasisFunction") EXCEPT !.pattern = a.night_pattern],
         0>>,
       <<BF("SunAltHighLimitBasisFunction"), 0>> >>

euclid_generate_twilight_neo_detailers(a) ==
    <<CameraRotDetailer(a.camera_rot_limits),
      Detailer("CloseAltDetailer"),
      [Detailer("TwilightTripleDetailer") EXCEPT !.n_repeat = a.n_repeat]>>

\* one iteration of the loop over the characters of filters
euclid_generate_twilight_neo_survey(filtername, a) ==
    LET bfs == euclid_generate_twilight_neo_bfs(filtername, a)
    IN  [Survey("BlobSurvey") EXCEPT
            !.basis_functions = Unpack0(bfs),
            !.weights = Unpack1(bfs),
            !.filtername1 = filtername,
            !.filtername2 = None,
            !.ideal_pair_time = Some(a.ideal_pair_time),
            !.exptime = a.exptime,
            !.survey_note = <<"twilight_neo">>,
            !.ignore_obs = <<"DD", "greedy", "blob">>,
            !.nexp = a.nexp,
            !.detailers = euclid_generate_twilight_neo_detailers(a),
            !.az_range = Some(180),
            !.area_required = a.area_required]

euclid_generate_twilight_neo(a) ==
    [i \in 1..Len(a.filters) |-> euclid_generate_twilight_neo_survey(a.filters[i], a)]

----------------------------------------------------------------------------
(* Calls of the generator functions with arbitrary arguments *)

\* longest filter list drawn
MaxLen == 2

\* filters drawn: u has its own template weight, g is a good_seeing key of the
\* default dict, y is neither
GenFilters == {"u", "g", "y"}

SeqsUpTo(S, n) == UNION {[1..k -> S] : k \in 0..n}

\* weight and pair_time arguments drawn: the defaults of generate_blobs and a
\* choice in which every weight is different
GenWeights ==
    { [m5_weight |-> 600, footprint_weight |-> 150, slewtime_weight |-> 300,
       stayfilter_weight |-> 300, template_weight |-> 1200,
       u_template_weight |-> 2400, good_seeing_weight |-> 300,
       repeat_weight |-> -2000, pair_time |-> 33],
      [m5_weight |-> 200, footprint_weight |-> 50, slewtime_weight |-> 700,
       stayfilter_weight |-> 900, template_weight |-> 1000,
       u_template_weight |-> 3000, good_seeing_weight |-> 500,
       repeat_weight |-> -300, pair_time |-> 20] }

GenGoodSeeing == { [f \in {"g", "r", "i"} |-> 3], [f \in {"u", "y"} |-> 2] }

\* night pattern handed to the twilight generators
GenNightPattern == <<FALSE, TRUE, TRUE>>

GenArgs ==
    { [filter1s |-> f1s, filter2s |-> f2s, w |-> w, good_seeing |-> gs,
       u_nexp1 |-> un, repeat_night_weight |-> rnw,
       night_pattern |-> GenNightPattern] :
        f1s \in SeqsUpTo(GenFilters, MaxLen),
        f2s \in SeqsUpTo(GenFilters \cup {None}, MaxLen),
        w \in GenWeights, gs \in GenGoodSeeing, un \in BOOLEAN,
        rnw \in {<<>>, <<400>>} }

\* the keyword arguments of each call: the function's defaults, overridden by
\* the arguments drawn
GreedyArgs(defaults, g) ==
    [defaults EXCEPT
        !.filters = g.filter1s, !.m5_weight = g.w.m5_weight,
        !.footprint_weight = g.w.footprint_weight,
        !.slewtime_weight = g.w.slewtime_weight,
        !.stayfilter_weight = g.w.stayfilter_weight,
        !.repeat_weight = g.w.repeat_weight]

BlobArgs(defaults, g) ==
    [defaults EXCEPT
        !.filter1s = g.filter1s, !.filter2s = g.filter2s,
        !.pair_time = g.w.pair_time,
        !.m5_weight = g.w.m5_weight,
        !.footprint_weight = g.w.footprint_weight,
        !.slewtime_weight = g.w.slewtime_weight,
        !.stayfilter_weight = g.w.stayfilter_weight,
        !.template_weight = g.w.template_weight,
        !.u_template_weight = g.w.u_template_weight,
        !.good_seeing_weight = g.w.good_seeing_weight,
        !.repeat_weight = g.w.repeat_weight,
        !.good_seeing = g.good_seeing, !.u_nexp1 = g.u_nexp1]

TwiArgs(defaults, g) ==
    [defaults EXCEPT
        !.filter1s = g.filter1s, !.filter2s = g.filter2s,
        !.pair_time = g.w.pair_time,
        !.m5_weight = g.w.m5_weight,
        !.footprint_weight = g.w.footprint_weight,
        !.slewtime_weight = g.w.slewtime_weight,
        !.stayfilter_weight = g.w.stayfilter_weight,
        !.template_weight = g.w.template_weight,
        !.repeat_weight = g.w.repeat_weight,
        !.repeat_night_weight = g.repeat_night_weight,
        !.night_pattern = g.night_pattern]

NeoArgs(defaults, g) ==
    [defaults EXCEPT
        !.filters = g.filter1s,
        !.footprint_weight = g.w.footprint_weight,
        !.slewtime_weight = g.w.slewtime_weight,
        !.stayfilter_weight = g.w.stayfilter_weight,
        !.night_pattern = g.night_pattern]

\* values of the variables a specification does not use
MainIdle ==
    /\ script = "none"
    /\ sys_argv = <<>>
    /\ cwd = <<>>
    /\ pc = "idle"
    /\ args = <<>>
    /\ extra_info = <<>>
    /\ fileroot = <<>>
    /\ neo_night_pattern = <<>>
    /\ reverse_neo_night_pattern = <<>>
    /\ groups = <<>>
    /\ built_order = <<>>
    /\ sim_calls = <<>>
    /\ raised = <<>>

FpIdle ==
    /\ fp_step = 0
    /\ pix_labels = <<>>
    /\ healmaps = <<>>
    /\ in_poly = {}

GenIdle ==
    /\ gen_args = <<>>
    /\ gen_called = "none"
    /\ gen_result = <<>>

InitGen ==
    /\ gen_args \in GenArgs
    /\ gen_called = "none"
    /\ gen_result = <<>>
    /\ MainIdle
    /\ FpIdle

\* one call per run: the call returns its list of surveys
Returned(name, surveys) ==
    /\ gen_called = "none"
    /\ gen_called' = name
    /\ gen_result' = surveys
    /\ UNCHANGED <<gen_args, main_vars, fp_vars>>

Call_gen_GreedySurveys ==
    Returned("draft2.gen_GreedySurveys",
             gen_GreedySurveys(GreedyArgs(gen_GreedySurveys_defaults, gen_args)))

Call_generate_blobs ==
    Returned("draft2.generate_blobs",
             generate_blobs(BlobArgs(generate_blobs_defaults, gen_args)))

Call_generate_twi_blobs ==
    Returned("draft2.generate_twi_blobs",
             generate_twi_blobs(TwiArgs(generate_twi_blobs_defaults, gen_args)))

Call_generate_twilight_neo ==
    Returned("draft2.generate_twilight_neo",
             generate_twilight_neo(NeoArgs(generate_twilight_neo_defaults, gen_args)))

Call_euclid_gen_GreedySurveys ==
    Returned("euclid.gen_GreedySurveys",
             euclid_gen_GreedySurveys(
                 GreedyArgs(euclid_gen_GreedySurveys_defaults, gen_args)))

Call_euclid_generate_blobs ==
    Returned("euclid.generate_blobs",
             euclid_generate_blobs(
                 BlobArgs(euclid_generate_blobs_defaults, gen_args)))

Call_euclid_generate_twi_blobs ==
    Returned("euclid.generate_twi_blobs",
             euclid_generate_twi_blobs(
                 TwiArgs(euclid_generate_twi_blobs_defaults, gen_args)))

Call_euclid_generate_twilight_neo ==
    Returned("euclid.generate_twilight_neo",
             euclid_generate_twilight_neo(
                 NeoArgs(euclid_generate_twilight_neo_defaults, gen_args)))

NextGen ==
    \/ Call_gen_GreedySurveys
    \/ Call_generate_blobs
    \/ Call_generate_twi_blobs
    \/ Call_generate_twilight_neo
    \/ Call_euclid_gen_GreedySurveys
    \/ Call_euclid_generate_blobs
    \/ Call_euclid_generate_twi_blobs
    \/ Call_euclid_generate_twilight_neo

SpecGen == InitGen /\ [][NextGen]_vars

----------------------------------------------------------------------------
(* Properties of the generator functions (checked under SpecGen) *)

BlobCalls == {"draft2.generate_blobs", "euclid.generate_blobs"}

TwiCalls == {"draft2.generate_twi_blobs", "euclid.generate_twi_blobs"}

GreedyCalls == {"draft2.gen_GreedySurveys", "euclid.gen_GreedySurveys"}

NeoCalls == {"draft2.generate_twilight_neo", "euclid.generate_twilight_neo"}

\* the terms of a survey of one kind, as <<filtername, weight>> in list order
TermsOfKind(s, kind) ==
    LET idx == SelectSeq([i \in 1..Len(s.basis_functions) |-> i],
                         LAMBDA i : s.basis_functions[i].kind = kind)
    IN  [k \in 1..Len(idx) |->
            <<s.basis_functions[idx[k]].filtername, s.weights[idx[k]]>>]

\* terms of one kind: one per filter of the survey; twice a paired term's
\* weight, or an unpaired term's weight, is the weight argument
SplitInTwo(s, kind, weight) ==
    LET t == TermsOfKind(s, kind)
    IN  IF s.filtername2 # None
        THEN /\ Len(t) = 2
             /\ t[1][1] = s.filtername1 /\ t[2][1] = s.filtername2
             /\ 2 * t[1][2] = weight /\ 2 * t[2][2] = weight
        ELSE /\ Len(t) = 1
             /\ t[1][1] = s.filtername1
             /\ t[1][2] = weight

\* C1: in generate_blobs and generate_twi_blobs a paired survey carries two
\* M5-difference terms and two footprint terms (filter1, filter2), each at
\* half of m5_weight / footprint_weight; an unpaired survey carries one of
\* each at the full weight.
C1_PairedTermsHalved ==
    gen_called \in BlobCalls \cup TwiCalls =>
        \A i \in 1..Len(gen_result) :
            /\ SplitInTwo(gen_result[i], "M5DiffBasisFunction",
                          gen_args.w.m5_weight)
            /\ SplitInTwo(gen_result[i], "FootprintBasisFunction",
                          gen_args.w.footprint_weight)

\* a call of generate_blobs returned a paired and an unpaired survey
C1_Witness ==
    /\ gen_called = "draft2.generate_blobs"
    /\ Len(gen_result) = 2
    /\ gen_result[1].filtername2 # None
    /\ gen_result[2].filtername2 = None

MaskKinds ==
    {"ZenithShadowMaskBasisFunction", "MoonAvoidanceBasisFunction",
     "FilterLoadedBasisFunction", "PlanetMaskBasisFunction",
     "TimeToScheduledBasisFunction", "TimeToTwilightBasisFunction",
     "NotTwilightBasisFunction", "NightModuloBasisFunction",
     "SolarElongationMaskBasisFunction", "SunAltHighLimitBasisFunction",
     "NearSunTwilightBasisFunction"}

HasMask(s) ==
    \E j \in 1..Len(s.basis_functions) : s.basis_functions[j].kind \in MaskKinds

\* C2: every mask-type basis function of every survey built by the four
\* generators has weight 0, whatever the weight arguments are.
C2_MasksHaveZeroWeight ==
    gen_called # "none" =>
        \A i \in 1..Len(gen_result) :
            \A j \in 1..Len(gen_result[i].basis_functions) :
                gen_result[i].basis_functions[j].kind \in MaskKinds
                    => gen_result[i].weights[j] = 0

\* a call of generate_blobs with non-zero weight arguments returned a survey
\* with mask terms
C2_Witness ==
    /\ gen_called = "draft2.generate_blobs"
    /\ Len(gen_result) > 0
    /\ HasMask(gen_result[1])
    /\ gen_args.w.m5_weight # 0 /\ gen_args.w.stayfilter_weight # 0

\* C3: one survey per input entry, in input order: per filter for
\* gen_GreedySurveys and generate_twilight_neo (whose surveys are unpaired),
\* per (filter1s[i], filter2s[i]) for generate_blobs and generate_twi_blobs
\* given lists of equal length.
C3_OneSurveyPerEntry ==
    /\ gen_called \in GreedyCalls \cup NeoCalls =>
           /\ Len(gen_result) = Len(gen_args.filter1s)
           /\ \A i \in 1..Len(gen_result) :
                  /\ gen_result[i].filtername1 = gen_args.filter1s[i]
                  /\ gen_result[i].filtername2 = None
    /\ (gen_called \in BlobCalls \cup TwiCalls
        /\ Len(gen_args.filter1s) = Len(gen_args.filter2s)) =>
           /\ Len(gen_result) = Len(gen_args.filter1s)
           /\ \A i \in 1..Len(gen_result) :
                  /\ gen_result[i].filtername1 = gen_args.filter1s[i]
                  /\ gen_result[i].filtername2 = gen_args.filter2s[i]

\* generate_blobs was given the same pair twice and a different one, and
\* returned a duplicate survey
C3_Witness ==
    /\ gen_called = "draft2.generate_blobs"
    /\ Len(gen_args.filter1s) = 2 /\ Len(gen_args.filter2s) = 2
    /\ gen_args.filter1s[1] = gen_args.filter1s[2]
    /\ gen_args.filter2s[1] = gen_args.filter2s[2]
    /\ gen_result[1] = gen_result[2]

\* number of the survey's filters that are keys of good_seeing
GoodSeeingCount(s) ==
    (IF s.filtername1 \in DOMAIN gen_args.good_seeing THEN 1 ELSE 0)
    + (IF s.filtername2 # None /\ s.filtername2 \in DOMAIN gen_args.good_seeing
       THEN 1 ELSE 0)

\* the (basis function, weight) tuples the generator called last builds for s
BfsOf(s) ==
    CASE gen_called = "draft2.generate_blobs" ->
            generate_blobs_bfs(s.filtername1, s.filtername2,
                               BlobArgs(generate_blobs_defaults, gen_args))
      [] gen_called = "euclid.generate_blobs" ->
            euclid_generate_blobs_bfs(s.filtername1, s.filtername2,
                               BlobArgs(euclid_generate_blobs_defaults, gen_args))
      [] gen_called = "draft2.generate_twi_blobs" ->
            generate_twi_blobs_bfs(s.filtername1, s.filtername2,
                               TwiArgs(generate_twi_blobs_defaults, gen_args))
      [] gen_called = "euclid.generate_twi_blobs" ->
            euclid_generate_twi_blobs_bfs(s.filtername1, s.filtername2,
                               TwiArgs(euclid_generate_twi_blobs_defaults, gen_args))

\* C4: in generate_blobs and generate_twi_blobs weights and basis_functions
\* have the same length, weights[j] is the weight of the tuple that holds
\* basis_functions[j], and the length is 13 (unpaired) or 16 (paired) plus
\* the number of good-seeing terms (generate_blobs) or plus 1 when
\* repeat_night_weight is given (generate_twi_blobs).
C4_WeightsMatchBasisFunctions ==
    gen_called \in BlobCalls \cup TwiCalls =>
        \A i \in 1..Len(gen_result) :
            LET s == gen_result[i]
                base == IF s.filtername2 = None THEN 13 ELSE 16
                extra == IF gen_called \in BlobCalls
                         THEN GoodSeeingCount(s)
                         ELSE IF gen_args.repeat_night_weight # <<>>
                              THEN 1 ELSE 0
            IN  /\ Len(s.weights) = Len(s.basis_functions)
                /\ Len(s.weights) = base + extra
                /\ Len(BfsOf(s)) = Len(s.weights)
                /\ \A j \in 1..Len(s.weights) :
                       BfsOf(s)[j] = <<s.basis_functions[j], s.weights[j]>>

\* generate_blobs returned a paired survey with two good-seeing terms
C4_Witness ==
    /\ gen_called = "euclid.generate_blobs"
    /\ Len(gen_result) > 0
    /\ gen_result[1].filtername2 # None
    /\ GoodSeeingCount(gen_result[1]) = 2
    /\ Len(gen_result[1].weights) = 18

----------------------------------------------------------------------------
(* euclid_smudge.py: EuclidOverlapFootprint *)

\* number of HEALPix pixels of the sky map
NPix == 2

Pixels == 1..NPix

Bands == <<"u", "g", "r", "i", "z", "y">>

\* default filter ratios of return_maps, in hundredths
magellenic_clouds_ratios ==
    [u |-> 32, g |-> 40, r |-> 100, i |-> 100, z |-> 90, y |-> 90]

low_dust_ratios ==
    [u |-> 32, g |-> 40, r |-> 100, i |-> 100, z |-> 90, y |-> 90]

virgo_ratios ==
    [u |-> 32, g |-> 40, r |-> 100, i |-> 100, z |-> 90, y |-> 90]

scp_ratios ==
    [u |-> 8, g |-> 15, r |-> 8, i |-> 15, z |-> 8, y |-> 6]

nes_ratios == [g |-> 23, r |-> 33, i |-> 33, z |-> 23]

bulge_ratios ==
    [u |-> 19, g |-> 57, r |-> 115, i |-> 105, z |-> 78, y |-> 57]

dusty_plane_ratios ==
    [u |-> 7, g |-> 13, r |-> 28, i |-> 28, z |-> 25, y |-> 18]

euclid_ratios ==
    [u |-> 32, g |-> 40, r |-> 100, i |-> 100, z |-> 90, y |-> 90]

\* np.zeros: no pixel labelled, every map 0
empty_labels == [p \in Pixels |-> ""]

empty_healmaps == [p \in Pixels |-> [f \in AllFilters |-> 0]]

\* self.pix_labels[indx] = label
set_labels(labels, indx, label) ==
    [p \in Pixels |-> IF p \in indx THEN label ELSE labels[p]]

\* for filtername in filter_ratios:
\*     self.healmaps[filtername][indx] = filter_ratios[filtername]
set_healmaps(maps, indx, filter_ratios) ==
    [p \in Pixels |->
        IF p \in indx
        THEN [f \in AllFilters |-> IF f \in DOMAIN filter_ratios
                                   THEN filter_ratios[f] ELSE maps[p][f]]
        ELSE maps[p]]

\* an add_ method of the base class SkyAreaGeneratorGalplane: the pixels of
\* its region that carry no label yet
add_region_indx(labels, region) ==
    {p \in Pixels : p \in region /\ labels[p] = ""}

\* add_euclid_overlap: np.where(np.array(in_poly) == True & (pix_labels == ""))
\* & binds tighter than ==, so the test compares in_poly with
\* (True & (pix_labels == ""))
add_euclid_overlap_indx(labels, poly) ==
    {p \in Pixels : (p \in poly) = (TRUE /\ (labels[p] = ""))}

InitFp ==
    /\ fp_step = 0
    /\ pix_labels = empty_labels
    /\ healmaps = empty_healmaps
    /\ in_poly \in SUBSET Pixels
    /\ MainIdle
    /\ GenIdle

\* one add_ method of the base class, called as the k-th step of return_maps
AddRegion(k, label, filter_ratios) ==
    /\ fp_step = k - 1
    /\ \E region \in SUBSET Pixels :
          LET indx == add_region_indx(pix_labels, region)
          IN  /\ pix_labels' = set_labels(pix_labels, indx, label)
              /\ healmaps' = set_healmaps(healmaps, indx, filter_ratios)
    /\ fp_step' = k
    /\ UNCHANGED <<in_poly, main_vars, gen_vars>>

add_magellanic_clouds == AddRegion(1, "LMC_SMC", magellenic_clouds_ratios)

add_lowdust_wfd == AddRegion(2, "lowdust", low_dust_ratios)

add_virgo_cluster == AddRegion(3, "virgo", virgo_ratios)

add_bulgy == AddRegion(4, "bulgy", bulge_ratios)

add_nes == AddRegion(5, "nes", nes_ratios)

add_dusty_plane == AddRegion(6, "dusty_plane", dusty_plane_ratios)

add_euclid_overlap ==
    /\ fp_step = 6
    /\ LET indx == add_euclid_overlap_indx(pix_labels, in_poly)
       IN  /\ pix_labels' = set_labels(pix_labels, indx, "euclid_overlap")
           /\ healmaps' = set_healmaps(healmaps, indx, euclid_ratios)
    /\ fp_step' = 7
    /\ UNCHANGED <<in_poly, main_vars, gen_vars>>

add_scp == AddRegion(8, "scp", scp_ratios)

NextFp ==
    \/ add_magellanic_clouds
    \/ add_lowdust_wfd
    \/ add_virgo_cluster
    \/ add_bulgy
    \/ add_nes
    \/ add_dusty_plane
    \/ add_euclid_overlap
    \/ add_scp

SpecFp == InitFp /\ [][NextFp]_vars

\* C5: once a pixel has a label, no later add_ step of return_maps changes
\* its label or its per-filter values.
C5_LabelledPixelsKept ==
    [][\A p \in Pixels :
          pix_labels[p] # "" =>
              /\ pix_labels'[p] = pix_labels[p]
              /\ healmaps'[p] = healmaps[p]]_vars

----------------------------------------------------------------------------
(* Text: Python str and os.path functions used by main and run_sched *)

\* does s start with prefix
StartsWith(s, prefix) ==
    /\ Len(s) >= Len(prefix)
    /\ SubSeq(s, 1, Len(prefix)) = prefix

\* str.replace(old, new): every non-overlapping occurrence, left to right
RECURSIVE str_replace(_, _, _)
str_replace(s, old, new) ==
    IF s = <<>> THEN <<>>
    ELSE IF StartsWith(s, old)
         THEN new \o str_replace(SubSeq(s, Len(old) + 1, Len(s)), old, new)
         ELSE <<Head(s)>> \o str_replace(Tail(s), old, new)

\* os.path.basename: what follows the last "/"
RECURSIVE os_path_basename(_)
os_path_basename(p) ==
    IF \E i \in 1..Len(p) : p[i] = "/"
    THEN os_path_basename(Tail(p))
    ELSE p

\* os.path.join(a, b)
os_path_join(a, b) ==
    IF StartsWith(b, <<"/">>) THEN b
    ELSE IF a = <<>> \/ a[Len(a)] = "/" THEN a \o b
    ELSE a \o <<"/">> \o b

DigitChars == <<"0", "1", "2", "3", "4", "5", "6", "7", "8", "9">>

\* '%i' % n for a whole number n >= 0
RECURSIVE format_i(_)
format_i(n) ==
    IF n < 10 THEN <<DigitChars[n + 1]>>
    ELSE format_i(n \div 10) \o <<DigitChars[(n % 10) + 1]>>

\* np.round(num / den) for num >= 0: to the nearest whole number, halves to
\* the even neighbour
np_round(num, den) ==
    LET q == num \div den
        r == num % den
    IN  IF 2 * r < den THEN q
        ELSE IF 2 * r > den THEN q + 1
        ELSE IF q % 2 = 0 THEN q ELSE q + 1

\* 365.25 days, in eighths of a day
DaysPerYear == 2922

----------------------------------------------------------------------------
(* run_sched *)

\* variant: the number of years is cut, not rounded
run_sched_filename_floor(survey_length, fileroot_arg) ==
    LET years == survey_length \div DaysPerYear
    IN  fileroot_arg \o format_i(years) \o <<"y", "r", "s", ".", "d", "b">>

\* filename=fileroot+'%iyrs.db' % years
run_sched_filename(survey_length, fileroot_arg) ==
    LET years == np_round(survey_length, DaysPerYear)
    IN  fileroot_arg \o format_i(years) \o <<"y", "r", "s", ".", "d", "b">>

\* the call of sim_runner made by run_sched
run_sched(surveys, survey_length, fileroot_arg, extra, illum_limit) ==
    [surveys |-> surveys, survey_length |-> survey_length,
     filename |-> run_sched_filename(survey_length, fileroot_arg),
     extra_info |-> extra, illum_limit |-> illum_limit]

----------------------------------------------------------------------------
(* ddf_surveys and gen_long_gaps_survey *)

\* generate_ddf_scheduled_obs (sibling module make_ddf_survey): a schedule of
\* DDF observations, each with its note
generate_ddf_scheduled_obs ==
    << [note |-> "DD:ELAISS1", mjd |-> 1], [note |-> "DD:EDFS_a", mjd |-> 2],
       [note |-> "DD:EDFS_b", mjd |-> 3], [note |-> "DD:COSMOS", mjd |-> 4],
       [note |-> "DD:EDFS_a", mjd |-> 5] >>

\* variant: all_other is selected with | instead of &
ddf_surveys_scripts_or(obs_array) ==
    LET euclid_obs == SelectSeq(obs_array,
                         LAMBDA o : o.note = "DD:EDFS_b" \/ o.note = "DD:EDFS_a")
        all_other == SelectSeq(obs_array,
                         LAMBDA o : o.note # "DD:EDFS_b" \/ o.note # "DD:EDFS_a")
    IN  <<all_other, euclid_obs>>

\* obs_array[all_other] and obs_array[euclid_obs]: np.where keeps array order
ddf_surveys_scripts(obs_array) ==
    LET euclid_obs == SelectSeq(obs_array,
                         LAMBDA o : o.note = "DD:EDFS_b" \/ o.note = "DD:EDFS_a")
        all_other == SelectSeq(obs_array,
                         LAMBDA o : o.note # "DD:EDFS_b" /\ o.note # "DD:EDFS_a")
    IN  <<all_other, euclid_obs>>

\* the body of ddf_surveys after obs_array has been generated
ddf_surveys_of(obs_array, ddf_detailers, euclid_detailers) ==
    LET scripts == ddf_surveys_scripts(obs_array)
        survey1 == [Survey("ScriptedSurvey") EXCEPT
                       !.detailers = ddf_detailers, !.script = scripts[1]]
        survey2 == [Survey("ScriptedSurvey") EXCEPT
                       !.detailers = euclid_detailers, !.script = scripts[2]]
    IN  <<survey1, survey2>>

ddf_surveys(ddf_detailers, euclid_detailers) ==
    ddf_surveys_of(generate_ddf_scheduled_obs, ddf_detailers, euclid_detailers)

\* gen_long_gaps_survey (sibling module gen_long_gaps): its list of surveys
gen_long_gaps_survey ==
    <<[Survey("gen_long_gaps_survey") EXCEPT !.survey_name = <<"long_gaps">>]>>

----------------------------------------------------------------------------
(* main: the script run *)

Scripts == {"draft2", "euclid"}

\* sys.argv[0]: "d/s.py", "s.py.py"
MainArgv0s == {<<"d", "/", "s", ".", "p", "y">>,
               <<"s", ".", "p", "y", ".", "p", "y">>}

\* the working directory drawn: "/w"
MainCwds == {<<"/", "w">>}

\* an option of the command line: left out, or its name followed by one of
\* the values
MainOption(name, values) == {<<>>} \cup {<<name, v>> : v \in values}

\* --survey_length: left out, "182.625" (half a year), "625.0"
MainSurveyLengths ==
    MainOption(<<"-", "-", "s", "u", "r", "v", "e", "y", "_", "l", "e", "n", "g", "t", "h">>,
               {<<"1", "8", "2", ".", "6", "2", "5">>,
                <<"6", "2", "5", ".", "0">>})

\* --outDir: left out, "o"
MainOutDirs == MainOption(<<"-", "-", "o", "u", "t", "D", "i", "r">>, {<<"o">>})

\* --dbroot: left out, "b", "/b"
MainDbroots ==
    MainOption(<<"-", "-", "d", "b", "r", "o", "o", "t">>, {<<"b">>, <<"/", "b">>})

\* --neo_night_pattern: left out, "0" .. "8" but the default
MainNeoNightPatterns ==
    MainOption(<<"-", "-", "n", "e", "o", "_", "n", "i", "g", "h", "t", "_", "p", "a", "t", "t", "e", "r", "n">>,
               {<<c>> : c \in {"0", "1", "2", "3", "5", "6", "7", "8"}})

\* --neo_filters: left out, "g"
MainNeoFilters ==
    MainOption(<<"-", "-", "n", "e", "o", "_", "f", "i", "l", "t", "e", "r", "s">>, {<<"g">>})

\* the command lines drawn
MainArgvs ==
    { <<a0>> \o sl \o od \o db \o nnp \o nf :
        a0 \in MainArgv0s, sl \in MainSurveyLengths, od \in MainOutDirs,
        db \in MainDbroots, nnp \in MainNeoNightPatterns,
        nf \in MainNeoFilters }

\* int(text) of a text of decimal digits
RECURSIVE int(_)
int(text) ==
    IF text = <<>> THEN 0
    ELSE 10 * int(SubSeq(text, 1, Len(text) - 1))
         + (CHOOSE d \in 0..9 : DigitChars[d + 1] = text[Len(text)])

\* float(text) of a decimal text with at most one ".", as a number of eighths
\* (the texts drawn are whole multiples of an eighth)
float(text) ==
    LET dots  == {i \in 1..Len(text) : text[i] = "."}
        dot   == IF dots = {} THEN Len(text) + 1 ELSE CHOOSE i \in dots : TRUE
        whole == SubSeq(text, 1, dot - 1)
        frac  == SubSeq(text, dot + 1, Len(text))
    IN  8 * int(whole) + (8 * int(frac)) \div (10 ^ Len(frac))

\* parser.parse_args(): each option is the text that follows its name in
\* sys.argv (the last one when repeated) converted by its type, or the
\* default.  survey_length is in eighths of a day, gsw in hundredths.
parse_args(argv) ==
    LET given(name) == {i \in 2..(Len(argv) - 1) : argv[i] = name}
        text(name)  == argv[(CHOOSE i \in given(name) :
                                 \A j \in given(name) : j <= i) + 1]
        sl  == <<"-", "-", "s", "u", "r", "v", "e", "y", "_", "l", "e", "n", "g", "t", "h">>
        od  == <<"-", "-", "o", "u", "t", "D", "i", "r">>
        db  == <<"-", "-", "d", "b", "r", "o", "o", "t">>
        nnp == <<"-", "-", "n", "e", "o", "_", "n", "i", "g", "h", "t", "_", "p", "a", "t", "t", "e", "r", "n">>
        nf  == <<"-", "-", "n", "e", "o", "_", "f", "i", "l", "t", "e", "r", "s">>
    IN  [survey_length |-> IF given(sl) = {} THEN 29220 ELSE float(text(sl)),
         outDir |-> IF given(od) = {} THEN <<>> ELSE text(od),
         dbroot |-> IF given(db) = {} THEN <<>> ELSE Some(text(db)),
         neo_night_pattern |-> IF given(nnp) = {} THEN 4 ELSE int(text(nnp)),
         neo_filters |-> IF given(nf) = {} THEN <<"r", "i", "z">> ELSE text(nf),
         nexp |-> 2, gsw |-> 300, nights_off |-> 6, neo_repeat |-> 4,
         moon_illum_limit |-> 40]

\* for arg in sys.argv: exec_command += ' ' + arg
RECURSIVE exec_command_of(_)
exec_command_of(argv) ==
    IF argv = <<>> THEN <<>>
    ELSE <<" ">> \o Head(argv) \o exec_command_of(Tail(argv))

\* os.path.realpath(path) in the working directory dir: the absolute path.
\* The paths drawn have no ".", ".." or symbolic link in them.
os_path_realpath(dir, path) ==
    IF StartsWith(path, <<"/">>) THEN path ELSE os_path_join(dir, path)

\* outcomes of subprocess.check_output: the output, a non-zero exit status, or
\* the program cannot be started
SubprocessOutcomes == {"ok", "CalledProcessError", "FileNotFoundError"}

\* except subprocess.CalledProcessError, around the git call
git_hash_caught(exc) == exc = "CalledProcessError"

\* variant: the cat call is not guarded
rubin_hash_caught_never(exc) == FALSE

\* except subprocess.CalledProcessError, around the cat call
rubin_hash_caught(exc) == exc = "CalledProcessError"

file_end == <<"v", "2", ".", "9", "9", "_">>

\* variant: a pattern is also defined for the value 0
pattern_dict_with_zero ==
    [k \in 0..7 |->
        CASE k = 0 -> <<TRUE>>
          [] k = 1 -> <<TRUE>>
          [] k = 2 -> <<TRUE, FALSE>>
          [] k = 3 -> <<TRUE, FALSE, FALSE>>
          [] k = 4 -> <<TRUE, FALSE, FALSE, FALSE>>
          [] k = 5 -> <<TRUE, TRUE, TRUE, TRUE, FALSE, FALSE, FALSE, FALSE>>
          [] k = 6 -> <<TRUE, TRUE, TRUE, FALSE, FALSE, FALSE, FALSE>>
          [] k = 7 -> <<TRUE, TRUE, FALSE, FALSE, FALSE, FALSE>>]

pattern_dict ==
    [k \in 1..7 |->
        CASE k = 1 -> <<TRUE>>
          [] k = 2 -> <<TRUE, FALSE>>
          [] k = 3 -> <<TRUE, FALSE, FALSE>>
          [] k = 4 -> <<TRUE, FALSE, FALSE, FALSE>>
          [] k = 5 -> <<TRUE, TRUE, TRUE, TRUE, FALSE, FALSE, FALSE, FALSE>>
          [] k = 6 -> <<TRUE, TRUE, TRUE, FALSE, FALSE, FALSE, FALSE>>
          [] k = 7 -> <<TRUE, TRUE, FALSE, FALSE, FALSE, FALSE>>]

\* variant: the pattern is handed on as it is
reverse_pattern_not_negated(pattern) == [i \in 1..Len(pattern) |-> pattern[i]]

\* [not val for val in neo_night_pattern]
reverse_pattern(pattern) == [i \in 1..Len(pattern) |-> ~pattern[i]]

\* the fixed sky of a script run: which pixels each region covers
MainSky ==
    [LMC_SMC |-> {}, lowdust |-> {1}, virgo |-> {}, bulgy |-> {},
     nes |-> {2}, dusty_plane |-> {2}, euclid |-> {1}, scp |-> Pixels]

\* one add_ method of the base class applied to <<labels, maps>>
add_region(lm, region, label, filter_ratios) ==
    LET indx == add_region_indx(lm[1], region)
    IN  <<set_labels(lm[1], indx, label),
          set_healmaps(lm[2], indx, filter_ratios)>>

add_euclid(lm, poly) ==
    LET indx == add_euclid_overlap_indx(lm[1], poly)
    IN  <<set_labels(lm[1], indx, "euclid_overlap"),
          set_healmaps(lm[2], indx, euclid_ratios)>>

\* return_maps after the first k of its add_ calls, k up to 6: the empty
\* arrays, then add_magellanic_clouds .. add_dusty_plane
RECURSIVE return_maps_upto(_, _)
return_maps_upto(sky, k) ==
    IF k = 0 THEN <<empty_labels, empty_healmaps>>
    ELSE LET m == return_maps_upto(sky, k - 1)
         IN  CASE k = 1 -> add_region(m, sky.LMC_SMC, "LMC_SMC",
                                      magellenic_clouds_ratios)
               [] k = 2 -> add_region(m, sky.lowdust, "lowdust", low_dust_ratios)
               [] k = 3 -> add_region(m, sky.virgo, "virgo", virgo_ratios)
               [] k = 4 -> add_region(m, sky.bulgy, "bulgy", bulge_ratios)
               [] k = 5 -> add_region(m, sky.nes, "nes", nes_ratios)
               [] k = 6 -> add_region(m, sky.dusty_plane, "dusty_plane",
                                      dusty_plane_ratios)

\* EuclidOverlapFootprint.return_maps
return_maps(sky) ==
    add_region(add_euclid(return_maps_upto(sky, 6), sky.euclid),
               sky.scp, "scp", scp_ratios)

\* SkyAreaGeneratorGalplane.return_maps, used by draft2_uzy_named.py
galplane_return_maps(sky) ==
    add_region(return_maps_upto(sky, 6), sky.scp, "scp", scp_ratios)

\* the DDF detailer lists of main
main_details ==
    <<[Detailer("CameraRotDetailer") EXCEPT !.min_rot = -75, !.max_rot = 75],
      Detailer("DitherDetailer"),
      [Detailer("FilterNexp") EXCEPT !.filtername = "u", !.nexp = 1],
      Detailer("Rottep2RotspDesiredDetailer")>>

main_euclid_detailers ==
    <<[Detailer("CameraRotDetailer") EXCEPT !.min_rot = -75, !.max_rot = 75],
      Detailer("EuclidDitherDetailer"),
      [Detailer("FilterNexp") EXCEPT !.filtername = "u", !.nexp = 1],
      Detailer("Rottep2RotspDesiredDetailer")>>

\* variant: the tiers are listed in the order they were generated
main_surveys_as_generated(g) ==
    <<g.long_gaps, g.ddfs, g.greedy, g.neo, g.blobs, g.twi_blobs>>

\* surveys = [ddfs, long_gaps, blobs, twi_blobs, neo, greedy]
main_surveys(g) ==
    <<g.ddfs, g.long_gaps, g.blobs, g.twi_blobs, g.neo, g.greedy>>

GroupNames == {"ddfs", "long_gaps", "blobs", "twi_blobs", "neo", "greedy"}

Init ==
    /\ script \in Scripts
    /\ sys_argv \in MainArgvs
    /\ cwd \in MainCwds
    /\ pc = "git_hash"
    /\ args = parse_args(sys_argv)
    /\ extra_info = [exec_command |-> Some(exec_command_of(sys_argv)),
                     git_hash |-> <<>>, file_executed |-> <<>>,
                     rubin_sim_git_hash |-> <<>>]
    /\ fileroot = <<>>
    /\ neo_night_pattern = <<>>
    /\ reverse_neo_night_pattern = <<>>
    /\ groups = [n \in GroupNames |-> <<>>]
    /\ built_order = <<>>
    /\ sim_calls = <<>>
    /\ raised = <<>>
    /\ fp_step = 0
    /\ pix_labels = empty_labels
    /\ healmaps = empty_healmaps
    /\ in_poly = MainSky.euclid
    /\ GenIdle

\* an exception nothing catches ends the script
Uncaught(at, exc) ==
    /\ raised' = Append(raised, [at |-> at, exc |-> exc])
    /\ pc' = "crashed"

\* try: extra_info['git hash'] = subprocess.check_output(['git', ...])
GitHash ==
    /\ pc = "git_hash"
    /\ \E outcome \in SubprocessOutcomes :
          IF outcome = "ok"
          THEN /\ extra_info' = [extra_info EXCEPT !.git_hash = Some("<HEAD>")]
               /\ pc' = "rubin_hash"
               /\ UNCHANGED raised
          ELSE IF git_hash_caught(outcome)
          THEN /\ extra_info' = [extra_info EXCEPT
                                    !.git_hash = Some("Not in git repo")]
               /\ raised' = Append(raised, [at |-> "git_hash", exc |-> outcome])
               /\ pc' = "rubin_hash"
          ELSE /\ Uncaught("git_hash", outcome)
               /\ UNCHANGED extra_info
    /\ UNCHANGED <<script, sys_argv, cwd, args, fileroot, neo_night_pattern,
                   reverse_neo_night_pattern, groups, built_order, sim_calls,
                   gen_vars, fp_vars>>

\* extra_info['file executed'] = ...; try: ... check_output(['cat', hash_file])
RubinHash ==
    /\ pc = "rubin_hash"
    /\ \E outcome \in SubprocessOutcomes :
          LET info == [extra_info EXCEPT
                          !.file_executed =
                              Some(os_path_realpath(cwd, sys_argv[1]))]
          IN  IF outcome = "ok"
              THEN /\ extra_info' =
                          [info EXCEPT !.rubin_sim_git_hash = Some("<main>")]
                   /\ pc' = "fileroot"
                   /\ UNCHANGED raised
              ELSE IF rubin_hash_caught(outcome)
              THEN /\ extra_info' = info
                   /\ raised' = Append(raised,
                                       [at |-> "rubin_hash", exc |-> outcome])
                   /\ pc' = "fileroot"
              ELSE /\ Uncaught("rubin_hash", outcome)
                   /\ extra_info' = info
    /\ UNCHANGED <<script, sys_argv, cwd, args, fileroot, neo_night_pattern,
                   reverse_neo_night_pattern, groups, built_order, sim_calls,
                   gen_vars, fp_vars>>

\* if dbroot is None: fileroot = basename(sys.argv[0]).replace('.py', '') + '_'
main_fileroot(argv, a) ==
    IF IsNone(a.dbroot)
    THEN str_replace(os_path_basename(argv[1]), <<".", "p", "y">>, <<>>)
         \o <<"_">>
    ELSE a.dbroot[1] \o <<"_">>

Fileroot ==
    /\ pc = "fileroot"
    /\ fileroot' = main_fileroot(sys_argv, args)
    /\ pc' = "pattern"
    /\ UNCHANGED <<script, sys_argv, cwd, args, extra_info, neo_night_pattern,
                   reverse_neo_night_pattern, groups, built_order, sim_calls,
                   raised, gen_vars, fp_vars>>

\* neo_night_pattern = pattern_dict[neo_night_pattern]
PatternLookup ==
    /\ pc = "pattern"
    /\ IF args.neo_night_pattern \in DOMAIN pattern_dict
       THEN /\ neo_night_pattern' = pattern_dict[args.neo_night_pattern]
            /\ reverse_neo_night_pattern' =
                   reverse_pattern(pattern_dict[args.neo_night_pattern])
            /\ pc' = "footprints"
            /\ UNCHANGED raised
       ELSE /\ Uncaught("pattern", "KeyError")
            /\ UNCHANGED <<neo_night_pattern, reverse_neo_night_pattern>>
    /\ UNCHANGED <<script, sys_argv, cwd, args, extra_info, fileroot, groups, built_order,
                   sim_calls, gen_vars, fp_vars>>

\* sky.return_maps() and the footprint objects derived from it
Footprints ==
    /\ pc = "footprints"
    /\ LET lm == IF script = "euclid" THEN return_maps(MainSky)
                                       ELSE galplane_return_maps(MainSky)
       IN  /\ pix_labels' = lm[1]
           /\ healmaps' = lm[2]
    /\ fp_step' = 8
    /\ pc' = "long_gaps"
    /\ UNCHANGED <<script, sys_argv, cwd, args, extra_info, fileroot, neo_night_pattern,
                   reverse_neo_night_pattern, groups, built_order, sim_calls,
                   raised, in_poly, gen_vars>>

\* a survey group is generated and bound to its variable
Built(at, name, surveys, next) ==
    /\ pc = at
    /\ groups' = [groups EXCEPT ![name] = surveys]
    /\ built_order' = Append(built_order, name)
    /\ pc' = next
    /\ UNCHANGED <<script, sys_argv, cwd, args, extra_info, fileroot, neo_night_pattern,
                   reverse_neo_night_pattern, sim_calls, raised, gen_vars,
                   fp_vars>>

LongGaps == Built("long_gaps", "long_gaps", gen_long_gaps_survey, "ddfs")

DDFs ==
    Built("ddfs", "ddfs", ddf_surveys(main_details, main_euclid_detailers),
          "greedy")

\* greedy = gen_GreedySurveys(nside, nexp=nexp, footprints=footprints)
main_greedy(s, a) ==
    IF s = "euclid"
    THEN euclid_gen_GreedySurveys(
             [euclid_gen_GreedySurveys_defaults EXCEPT !.nexp = a.nexp])
    ELSE gen_GreedySurveys([gen_GreedySurveys_defaults EXCEPT !.nexp = a.nexp])

Greedy == Built("greedy", "greedy", main_greedy(script, args), "neo")

\* neo = generate_twilight_neo(nside, night_pattern=neo_night_pattern,
\*                             filters=neo_filters, n_repeat=neo_repeat, ...)
main_neo(s, a, pattern) ==
    IF s = "euclid"
    THEN euclid_generate_twilight_neo(
             [euclid_generate_twilight_neo_defaults EXCEPT
                 !.night_pattern = pattern, !.filters = a.neo_filters,
                 !.n_repeat = a.neo_repeat])
    ELSE generate_twilight_neo(
             [generate_twilight_neo_defaults EXCEPT
                 !.night_pattern = pattern, !.filters = a.neo_filters,
                 !.n_repeat = a.neo_repeat])

Neo == Built("neo", "neo", main_neo(script, args, neo_night_pattern), "blobs")

\* blobs = generate_blobs(nside, nexp=nexp, ..., good_seeing_weight=gsw)
main_blobs(s, a) ==
    IF s = "euclid"
    THEN euclid_generate_blobs(
             [euclid_generate_blobs_defaults EXCEPT
                 !.nexp = a.nexp, !.good_seeing_weight = a.gsw])
    ELSE generate_blobs(
             [generate_blobs_defaults EXCEPT
                 !.nexp = a.nexp, !.good_seeing_weight = a.gsw])

Blobs == Built("blobs", "blobs", main_blobs(script, args), "twi_blobs")

\* twi_blobs = generate_twi_blobs(nside, nexp=nexp, ...,
\*                 repeat_night_weight=repeat_night_weight,
\*                 night_pattern=reverse_neo_night_pattern)
main_twi_blobs(s, a, pattern) ==
    IF s = "euclid"
    THEN euclid_generate_twi_blobs(
             [euclid_generate_twi_blobs_defaults EXCEPT
                 !.nexp = a.nexp, !.repeat_night_weight = <<>>,
                 !.night_pattern = pattern])
    ELSE generate_twi_blobs(
             [generate_twi_blobs_defaults EXCEPT
                 !.nexp = a.nexp, !.repeat_night_weight = <<>>,
                 !.night_pattern = pattern])

TwiBlobs ==
    Built("twi_blobs", "twi_blobs",
          main_twi_blobs(script, args, reverse_neo_night_pattern), "run_sched")

\* run_sched(surveys, ..., fileroot=os.path.join(outDir, fileroot+file_end), ...)
\* once the scheduler and the observatory are made: sim_runner is called, and
\* returns or raises
RunSched ==
    /\ pc = "run_sched"
    /\ sim_calls' = Append(sim_calls,
                           run_sched(main_surveys(groups), args.survey_length,
                                     os_path_join(args.outDir,
                                                  fileroot \o file_end),
                                     extra_info, args.moon_illum_limit))
    /\ \E outcome \in {"ok", "Exception"} :
          IF outcome = "ok"
          THEN pc' = "done" /\ UNCHANGED raised
          ELSE Uncaught("run_sched", outcome)
    /\ UNCHANGED <<script, sys_argv, cwd, args, extra_info, fileroot,
                   neo_night_pattern, reverse_neo_night_pattern, groups,
                   built_order, gen_vars, fp_vars>>

\* statements that call into the external library; at run_sched, the calls
\* that come before sim_runner (CoreScheduler, FilterSchedUzy, ModelObservatory)
LibraryCalls ==
    {"footprints", "long_gaps", "ddfs", "greedy", "neo", "blobs", "twi_blobs",
     "run_sched"}

\* the external library raises: no handler is in scope.  In the statements of
\* footprints the raise comes after k add_ calls of sky.return_maps() are done
\* (none when the constructor raises; the class of draft2_uzy_named.py has no
\* seventh), or after it returned, in ModelObservatory, return_conditions or
\* make_rolling_footprints; what is done stays done.
LibraryError ==
    /\ pc \in LibraryCalls
    /\ Uncaught(pc, "Exception")
    /\ IF pc = "footprints"
       THEN \E k \in (IF script = "euclid" THEN 0..8 ELSE (0..8) \ {7}) :
                LET lm == IF k <= 6 THEN return_maps_upto(MainSky, k)
                          ELSE IF k = 7
                          THEN add_euclid(return_maps_upto(MainSky, 6),
                                          MainSky.euclid)
                          ELSE IF script = "euclid" THEN return_maps(MainSky)
                          ELSE galplane_return_maps(MainSky)
                IN  /\ pix_labels' = lm[1]
                    /\ healmaps' = lm[2]
                    /\ fp_step' = k
       ELSE UNCHANGED <<fp_step, pix_labels, healmaps>>
    /\ UNCHANGED <<script, sys_argv, cwd, args, extra_info, fileroot,
                   neo_night_pattern, reverse_neo_night_pattern, groups,
                   built_order, sim_calls, in_poly, gen_vars>>

Next ==
    \/ GitHash
    \/ RubinHash
    \/ Fileroot
    \/ PatternLookup
    \/ Footprints
    \/ LongGaps
    \/ DDFs
    \/ Greedy
    \/ Neo
    \/ Blobs
    \/ TwiBlobs
    \/ RunSched
    \/ LibraryError

Spec == Init /\ [][Next]_vars

----------------------------------------------------------------------------
(* Properties of the script run (checked under Spec) *)

RaisedAt(at) == {i \in 1..Len(raised) : raised[i].at = at}

\* C6: when the retrieval of the revision hash fails, extra_info['git hash']
\* is the placeholder 'Not in git repo' and the script goes on; it does not
\* end at that statement.
C6_GitFailureGivesPlaceholder ==
    RaisedAt("git_hash") # {} =>
        /\ extra_info.git_hash = Some("Not in git repo")
        /\ ~(pc = "crashed" /\ raised[Len(raised)].at = "git_hash")

\* a non-zero exit status of one of the two subprocess calls
IsCaughtKind(r) ==
    r.exc = "CalledProcessError" /\ r.at \in {"git_hash", "rubin_hash"}

\* C7 as stated: the revision-hash retrieval is the only failure that is
\* caught; any other failure, that of reading the library's hash file
\* included, ends the script before sim_runner is called.
C7_OnlyGitFailureCaught ==
    (\E i \in 1..Len(raised) : raised[i].at # "git_hash") =>
        pc = "crashed" /\ sim_calls = <<>>

\* the run ended in an uncaught failure.  At a statement before run_sched,
\* sim_runner has not been called.  At the run_sched statement it has been
\* called at most once: not at all when CoreScheduler, FilterSchedUzy or
\* ModelObservatory raised inside run_sched, once when sim_runner itself raised.
EndedAtFailure ==
    /\ pc = "crashed"
    /\ raised # <<>>
    /\ ~IsCaughtKind(raised[Len(raised)])
    /\ raised[Len(raised)].at # "run_sched" => sim_calls = <<>>
    /\ raised[Len(raised)].at = "run_sched" => Len(sim_calls) <= 1

\* C7 amended: a non-zero exit status of the git call and of the cat of the
\* library's hash file are both caught, so neither ends the script; every
\* failure outside these two subprocess calls ends the script, and the run
\* never completes.  sim_runner has not been called when the script ends at a
\* statement before run_sched; when it ends at the run_sched statement, the
\* last of the script, sim_runner has been called at most once (not at all
\* when the failure comes before the call inside run_sched, once when
\* sim_runner itself raises).
C7_OnlyNonZeroExitsCaught ==
    /\ (\E i \in 1..Len(raised) :
            raised[i].at \notin {"git_hash", "rubin_hash"}) => EndedAtFailure
    /\ pc = "crashed" => EndedAtFailure
    /\ pc = "done" =>
           \A i \in 1..Len(raised) : IsCaughtKind(raised[i])

\* both subprocess calls exited with a non-zero status and the simulation was
\* still started
C7_Witness ==
    /\ pc = "done"
    /\ Len(raised) = 2
    /\ raised[1] = [at |-> "git_hash", exc |-> "CalledProcessError"]
    /\ raised[2] = [at |-> "rubin_hash", exc |-> "CalledProcessError"]
    /\ extra_info.rubin_sim_git_hash = <<>>
    /\ Len(sim_calls) = 1

\* the text of a whole number of years
YearsText(y) ==
    CASE y = 0 -> <<"0">>
      [] y = 1 -> <<"1">>
      [] y = 2 -> <<"2">>
      [] y = 10 -> <<"1", "0">>

\* y is a whole number of years nearest to survey_length / 365.25
NearestYears(y, survey_length) ==
    LET d == y * DaysPerYear - survey_length
    IN  2 * (IF d < 0 THEN -d ELSE d) <= DaysPerYear

\* <root>: --dbroot when given, else the script's base name without '.py'
NameRoot ==
    IF args.dbroot # <<>> THEN args.dbroot[1]
    ELSE str_replace(os_path_basename(sys_argv[1]), <<".", "p", "y">>, <<>>)

\* C8: the file name given to sim_runner is outDir joined with
\* <root>_v2.99_<Y>yrs.db, Y the survey length in years rounded to the
\* nearest whole number (10 for the default length).
C8_OutputFileName ==
    \A i \in 1..Len(sim_calls) :
        \E y \in {0, 1, 2, 10} :
            /\ NearestYears(y, args.survey_length)
            /\ args.survey_length = 29220 => y = 10
            /\ sim_calls[i].filename =
                   os_path_join(args.outDir,
                                NameRoot \o <<"_", "v", "2", ".", "9", "9", "_">>
                                \o YearsText(y)
                                \o <<"y", "r", "s", ".", "d", "b">>)

\* a run of d/s.py with --outDir o, without --dbroot, for 625 days
C8_Witness ==
    /\ pc = "done"
    /\ args.dbroot = <<>> /\ args.outDir = <<"o">>
    /\ sys_argv[1] = <<"d", "/", "s", ".", "p", "y">>
    /\ args.survey_length = 5000
    /\ sim_calls[1].filename =
           <<"o", "/", "s", "_", "v", "2", ".", "9", "9", "_", "2",
             "y", "r", "s", ".", "d", "b">>

IsBuilt(name) == \E i \in 1..Len(built_order) : built_order[i] = name

\* C9: sim_runner is called at most once, only after the six groups have
\* been built, once when the run completes, and with the tiers in the order
\* ddfs, long_gaps, blobs, twi_blobs, neo, greedy.
C9_SixTiersInPriorityOrder ==
    /\ Len(sim_calls) <= 1
    /\ pc = "done" => Len(sim_calls) = 1
    /\ \A i \in 1..Len(sim_calls) :
           LET tiers == sim_calls[i].surveys
           IN  /\ \A n \in GroupNames : IsBuilt(n)
               /\ Len(built_order) = 6
               /\ Len(tiers) = 6
               /\ tiers[1] = groups["ddfs"]
               /\ \A k \in 1..Len(tiers[1]) : tiers[1][k].cls = "ScriptedSurvey"
               /\ tiers[2] = groups["long_gaps"]
               /\ tiers[3] = groups["blobs"]
               /\ \A k \in 1..Len(tiers[3]) :
                      tiers[3][k].cls = "BlobSurvey"
                      /\ tiers[3][k].in_twilight = <<>>
               /\ tiers[4] = groups["twi_blobs"]
               /\ \A k \in 1..Len(tiers[4]) :
                      tiers[4][k].in_twilight = Some(TRUE)
               /\ tiers[5] = groups["neo"]
               /\ \A k \in 1..Len(tiers[5]) :
                      tiers[5][k].survey_note = <<"twilight_neo">>
               /\ tiers[6] = groups["greedy"]
               /\ \A k \in 1..Len(tiers[6]) : tiers[6][k].cls = "GreedySurvey"

\* the run completed: the groups were generated in another order than the
\* order of the tiers handed to sim_runner
C9_Witness ==
    /\ pc = "done"
    /\ Len(sim_calls) = 1
    /\ built_order = <<"long_gaps", "ddfs", "greedy", "neo", "blobs", "twi_blobs">>
    /\ Len(sim_calls[1].surveys[3]) = 7

----------------------------------------------------------------------------
(* Further properties of generate_blobs (checked under SpecGen) *)

\* the template weight of a filter: u_template_weight for u, template_weight
\* for every other filter
TemplateWeightOf(f) ==
    IF f = "u" THEN gen_args.w.u_template_weight
               ELSE gen_args.w.template_weight

\* C11: in generate_blobs every NObsPerYear term is weighted from its own
\* filter's template weight (u_template_weight for u, template_weight
\* otherwise): half of it for each of the two terms of a paired survey, all of
\* it for the single term of an unpaired survey.
C11_TemplateWeightPerFilter ==
    gen_called \in BlobCalls =>
        \A i \in 1..Len(gen_result) :
            LET s == gen_result[i]
                t == TermsOfKind(s, "NObsPerYearBasisFunction")
            IN  IF s.filtername2 # None
                THEN /\ Len(t) = 2
                     /\ t[1][1] = s.filtername1 /\ t[2][1] = s.filtername2
                     /\ 2 * t[1][2] = TemplateWeightOf(s.filtername1)
                     /\ 2 * t[2][2] = TemplateWeightOf(s.filtername2)
                ELSE /\ Len(t) = 1
                     /\ t[1][1] = s.filtername1
                     /\ t[1][2] = TemplateWeightOf(s.filtername1)

\* detailers.FilterNexp(filtername='u', nexp=1)
FilterNexpU1 == [Detailer("FilterNexp") EXCEPT !.filtername = "u", !.nexp = 1]

\* positions of the FilterNexp detailers of a detailer list
FilterNexpAt(ds) == {j \in 1..Len(ds) : ds[j].kind = "FilterNexp"}

\* C12: in generate_blobs, with u_nexp1 True every survey's detailer list
\* holds exactly one FilterNexp detailer, FilterNexp(filtername='u', nexp=1),
\* as its last element; with u_nexp1 False no survey's list holds one.
C12_FilterNexpLastWhenAsked ==
    gen_called \in BlobCalls =>
        \A i \in 1..Len(gen_result) :
            LET ds == gen_result[i].detailers
            IN  IF gen_args.u_nexp1
                THEN /\ FilterNexpAt(ds) = {Len(ds)}
                     /\ ds[Len(ds)] = FilterNexpU1
                ELSE FilterNexpAt(ds) = {}

\* generate_blobs with u_nexp1 True returned a paired survey, whose list also
\* holds a TakeAsPairs detailer, and an unpaired one
C12_Witness ==
    /\ gen_called = "draft2.generate_blobs"
    /\ gen_args.u_nexp1
    /\ Len(gen_result) = 2
    /\ gen_result[1].filtername2 # None
    /\ Len(gen_result[1].detailers) = 6
    /\ gen_result[2].filtername2 = None
    /\ Len(gen_result[2].detailers) = 5

----------------------------------------------------------------------------
(* Further properties of EuclidOverlapFootprint (checked under SpecFp) *)

\* C13: add_euclid_overlap touches only pixels inside the Euclid polygon:
\* after the call every pixel labelled 'euclid_overlap' is inside the polygon,
\* and every pixel outside it keeps its label and its per-filter values.
C13_OnlyInsidePolygon ==
    [][(fp_step = 6 /\ fp_step' = 7) =>
          \A p \in Pixels :
              /\ pix_labels'[p] = "euclid_overlap" => p \in in_poly
              /\ p \notin in_poly =>
                     /\ pix_labels'[p] = pix_labels[p]
                     /\ healmaps'[p] = healmaps[p]]_vars

----------------------------------------------------------------------------
(* Night patterns of the twilight groups (checked under Spec) *)

\* nights looked at: twice the longest pattern
MaxNight == 16

\* NightModuloBasisFunction on night n: pattern[n % len(pattern)]
NightEnabled(pattern, n) == pattern[(n % Len(pattern)) + 1]

\* the patterns of the NightModulo terms of a survey, in list order
NightPatternsOf(s) ==
    LET idx == SelectSeq([i \in 1..Len(s.basis_functions) |-> i],
                   LAMBDA i : s.basis_functions[i].kind = "NightModuloBasisFunction")
    IN  [k \in 1..Len(idx) |-> s.basis_functions[idx[k]].pattern]

\* C14: the pattern given to generate_twi_blobs is the element-wise negation
\* of the pattern given to generate_twilight_neo and has its length, so for
\* every --neo_night_pattern 1..7 and every night exactly one of the two
\* groups is enabled: every NEO survey carries pattern_dict[value], every
\* twilight blob survey its negation.
C14_TwilightBlobsOffOnNeoNights ==
    (IsBuilt("neo") /\ IsBuilt("twi_blobs")) =>
        LET neoP == pattern_dict[args.neo_night_pattern]
        IN  /\ args.neo_night_pattern \in 1..7
            /\ \A i \in 1..Len(groups.neo) :
                   NightPatternsOf(groups.neo[i]) = <<neoP>>
            /\ \A i \in 1..Len(groups.twi_blobs) :
                   LET ps == NightPatternsOf(groups.twi_blobs[i])
                   IN  /\ Len(ps) = 1
                       /\ Len(ps[1]) = Len(neoP)
                       /\ \A k \in 1..Len(neoP) : ps[1][k] = ~neoP[k]
                       /\ \A n \in 0..MaxNight :
                              NightEnabled(ps[1], n) # NightEnabled(neoP, n)

\* a run with --neo_night_pattern 5 (four nights on, four off) built both
\* twilight groups
C14_Witness ==
    /\ pc = "done"
    /\ args.neo_night_pattern = 5
    /\ Len(groups.neo) > 0
    /\ Len(groups.twi_blobs) = 4
    /\ NightPatternsOf(groups.neo[1])[1][5] = FALSE
    /\ NightPatternsOf(groups.twi_blobs[1])[1][5] = TRUE

----------------------------------------------------------------------------
(* Calls of ddf_surveys on arbitrary schedules of DDF observations *)

\* longest schedule drawn
MaxObs == 3

\* notes drawn: the two Euclid deep fields and two other fields
DdfNotes == {"DD:EDFS_a", "DD:EDFS_b", "DD:COSMOS", "DD:ELAISS1"}

\* schedules drawn: the k-th observation is at mjd k
DdfObsArrays ==
    UNION { { [i \in 1..k |-> [note |-> notes[i], mjd |-> i]] :
                notes \in [1..k -> DdfNotes] } : k \in 0..MaxObs }

InitDdf ==
    /\ gen_args \in {[obs_array |-> o] : o \in DdfObsArrays}
    /\ gen_called = "none"
    /\ gen_result = <<>>
    /\ MainIdle
    /\ FpIdle

\* ddf_surveys as main calls it, on the schedule drawn
Call_ddf_surveys ==
    Returned("ddf_surveys",
             ddf_surveys_of(gen_args.obs_array, main_details,
                            main_euclid_detailers))

NextDdf == Call_ddf_surveys

SpecDdf == InitDdf /\ [][NextDdf]_vars

IsEuclidNote(note) == note \in {"DD:EDFS_a", "DD:EDFS_b"}

\* the observations of a script, as a set
ScriptSet(script_seq) == {script_seq[i] : i \in 1..Len(script_seq)}

\* a script keeps the order of the generated array: mjd increases
InArrayOrder(script_seq) ==
    \A i, j \in 1..Len(script_seq) :
        i < j => script_seq[i].mjd < script_seq[j].mjd

\* C15: ddf_surveys returns [survey1, survey2]; survey2 (euclid_detailers) is
\* scripted with exactly the observations noted DD:EDFS_a or DD:EDFS_b,
\* survey1 (detailers) with exactly the others; every observation is in one
\* script and one only, each script is in the order of the generated array,
\* and the list has two elements even when a script is empty.
C15_DdfObservationsPartitioned ==
    gen_called = "ddf_surveys" =>
        /\ Len(gen_result) = 2
        /\ gen_result[1].cls = "ScriptedSurvey"
        /\ gen_result[2].cls = "ScriptedSurvey"
        /\ gen_result[1].detailers = main_details
        /\ gen_result[2].detailers = main_euclid_detailers
        /\ LET obs == gen_args.obs_array
               s1 == gen_result[1].script
               s2 == gen_result[2].script
           IN  /\ \A i \in 1..Len(s1) : ~IsEuclidNote(s1[i].note)
               /\ \A i \in 1..Len(s2) : IsEuclidNote(s2[i].note)
               /\ \A k \in 1..Len(obs) :
                      (obs[k] \in ScriptSet(s1)) # (obs[k] \in ScriptSet(s2))
               /\ Len(s1) + Len(s2) = Len(obs)
               /\ InArrayOrder(s1) /\ InArrayOrder(s2)

\* a schedule that interleaves the two kinds: Euclid, other, Euclid
C15_Witness ==
    /\ gen_called = "ddf_surveys"
    /\ Len(gen_args.obs_array) = 3
    /\ gen_args.obs_array[1].note = "DD:EDFS_a"
    /\ gen_args.obs_array[2].note = "DD:COSMOS"
    /\ gen_args.obs_array[3].note = "DD:EDFS_b"
    /\ Len(gen_result[1].script) = 1
    /\ Len(gen_result[2].script) = 2

----------------------------------------------------------------------------
(* Times, filters and detailers of the blob surveys (checked under SpecGen) *)

\* the basis functions of one class of a survey, in list order
BasisFunctionsOfKind(s, kind) ==
    SelectSeq(s.basis_functions, LAMBDA b : b.kind = kind)

\* C16: in generate_blobs and generate_twi_blobs the TimeToTwilight mask of a
\* survey requires pair_time when the survey is unpaired and 2*pair_time when
\* it is paired, ideal_pair_time is pair_time in both cases, and the
\* FilterLoaded mask lists the survey's non-None filters, filter1 first.
C16_TwilightTimeAndLoadedFilters ==
    gen_called \in BlobCalls \cup TwiCalls =>
        \A i \in 1..Len(gen_result) :
            LET s == gen_result[i]
                ttt == BasisFunctionsOfKind(s, "TimeToTwilightBasisFunction")
                fl == BasisFunctionsOfKind(s, "FilterLoadedBasisFunction")
            IN  /\ Len(ttt) = 1
                /\ ttt[1].time_needed = IF s.filtername2 = None
                                        THEN gen_args.w.pair_time
                                        ELSE 2 * gen_args.w.pair_time
                /\ s.ideal_pair_time = <<gen_args.w.pair_time>>
                /\ Len(fl) = 1
                /\ fl[1].filternames = IF s.filtername2 = None
                                       THEN <<s.filtername1>>
                                       ELSE <<s.filtername1, s.filtername2>>

\* generate_blobs with a pair_time other than the default returned an unpaired
\* survey and a paired survey
C16_Witness ==
    /\ gen_called = "draft2.generate_blobs"
    /\ gen_args.w.pair_time = 20
    /\ Len(gen_result) = 2
    /\ gen_result[1].filtername2 = None
    /\ gen_result[2].filtername2 # None
    /\ gen_result[2].filtername2 # gen_result[2].filtername1

\* positions of the TakeAsPairs detailers of a detailer list
TakeAsPairsAt(ds) == {j \in 1..Len(ds) : ds[j].kind = "TakeAsPairsDetailer"}

\* C17: in generate_blobs and generate_twi_blobs every survey's detailer list
\* starts CameraRot, Rottep2RotspDesired, CloseAlt, FlushForSched; it holds a
\* TakeAsPairs detailer exactly when the survey is paired, once, naming the
\* survey's own filter2; no list holds a TakeAsPairs detailer of another
\* survey.
C17_DetailerListPerSurvey ==
    gen_called \in BlobCalls \cup TwiCalls =>
        \A i \in 1..Len(gen_result) :
            LET s == gen_result[i]
                ds == s.detailers
            IN  /\ Len(ds) >= 4
                /\ ds[1] = CameraRotDetailer(<<-80, 80>>)
                /\ ds[2] = Detailer("Rottep2RotspDesiredDetailer")
                /\ ds[3] = Detailer("CloseAltDetailer")
                /\ ds[4] = Detailer("FlushForSchedDetailer")
                /\ IF s.filtername2 # None
                   THEN /\ TakeAsPairsAt(ds) = {5}
                        /\ ds[5].filtername = s.filtername2
                   ELSE TakeAsPairsAt(ds) = {}

\* generate_twi_blobs built a paired survey and then an unpaired one
C17_Witness ==
    /\ gen_called = "draft2.generate_twi_blobs"
    /\ Len(gen_result) = 2
    /\ gen_result[1].filtername2 # None
    /\ TakeAsPairsAt(gen_result[1].detailers) = {5}
    /\ gen_result[2].filtername2 = None
    /\ Len(gen_result[2].detailers) = 4

----------------------------------------------------------------------------
(* Terms of the greedy surveys (checked under SpecGen) *)

GreedyKinds ==
    <<"M5DiffBasisFunction", "FootprintBasisFunction", "SlewtimeBasisFunction",
      "StrictFilterBasisFunction", "VisitRepeatBasisFunction",
      "ZenithShadowMaskBasisFunction", "MoonAvoidanceBasisFunction",
      "FilterLoadedBasisFunction", "PlanetMaskBasisFunction">>

\* C18: every survey of gen_GreedySurveys has the nine terms M5Diff, Footprint,
\* Slewtime, StrictFilter, VisitRepeat, ZenithShadowMask, MoonAvoidance,
\* FilterLoaded, PlanetMask in this order, with the weights [m5_weight,
\* footprint_weight, slewtime_weight, stayfilter_weight, repeat_weight, 0, 0,
\* 0, 0]; M5Diff, Footprint, Slewtime, StrictFilter and FilterLoaded name the
\* survey's own filter.
C18_GreedyNineTerms ==
    gen_called \in GreedyCalls =>
        \A i \in 1..Len(gen_result) :
            LET s == gen_result[i]
                b == s.basis_functions
            IN  /\ Len(b) = 9
                /\ \A j \in 1..9 : b[j].kind = GreedyKinds[j]
                /\ s.weights = <<gen_args.w.m5_weight,
                                 gen_args.w.footprint_weight,
                                 gen_args.w.slewtime_weight,
                                 gen_args.w.stayfilter_weight,
                                 gen_args.w.repeat_weight, 0, 0, 0, 0>>
                /\ \A j \in 1..4 : b[j].filtername = s.filtername1
                /\ b[8].filternames = <<s.filtername1>>
                /\ s.filtername1 = gen_args.filter1s[i]

\* gen_GreedySurveys was given two different filters and weights that all
\* differ
C18_Witness ==
    /\ gen_called = "draft2.gen_GreedySurveys"
    /\ Len(gen_result) = 2
    /\ gen_result[1].filtername1 # gen_result[2].filtername1
    /\ gen_args.w.m5_weight = 200
    /\ gen_result[2].weights[2] = 50

----------------------------------------------------------------------------
(* Terms of the NEO twilight surveys (checked under SpecGen) *)

\* C19: every survey of generate_twilight_neo is unpaired, has the note
\* 'twilight_neo' and eleven terms weighted [footprint_weight,
\* slewtime_weight, stayfilter_weight, 0, 0, 0, 0, 0, 0, 0, 0]; its footprint
\* term uses the constant footprint that was set, for every filter of the
\* filters argument, to the one ecliptic target map.
C19_NeoElevenTerms ==
    gen_called \in NeoCalls =>
        \A i \in 1..Len(gen_result) :
            LET s == gen_result[i]
                b == s.basis_functions
            IN  /\ s.filtername2 = None
                /\ s.survey_note = <<"twilight_neo">>
                /\ Len(b) = 11
                /\ s.weights = <<gen_args.w.footprint_weight,
                                 gen_args.w.slewtime_weight,
                                 gen_args.w.stayfilter_weight,
                                 0, 0, 0, 0, 0, 0, 0, 0>>
                /\ b[1].kind = "FootprintBasisFunction"
                /\ BasisFunctionsOfKind(s, "FootprintBasisFunction") = <<b[1]>>
                /\ b[1].filtername = s.filtername1
                /\ b[1].footprint = <<"ConstantFootprint">> \o gen_args.filter1s

\* generate_twilight_neo was given two different filters
C19_Witness ==
    /\ gen_called = "draft2.generate_twilight_neo"
    /\ Len(gen_result) = 2
    /\ gen_result[1].filtername1 # gen_result[2].filtername1
    /\ gen_args.w.footprint_weight = 50
    /\ Len(gen_result[2].weights) = 11

----------------------------------------------------------------------------
(* Notes and ignore lists of the groups of a run (checked under Spec) *)

\* the characters of the string literals and of the values formatted into the
\* notes; a filter name is a single character
str_chars(piece) ==
    CASE piece = "Standard pair blobs " ->
            <<"S", "t", "a", "n", "d", "a", "r", "d", " ", "p", "a", "i", "r",
              " ", "b", "l", "o", "b", "s", " ">>
      [] piece = "blob, " -> <<"b", "l", "o", "b", ",", " ">>
      [] piece = "blob_twi, " ->
            <<"b", "l", "o", "b", "_", "t", "w", "i", ",", " ">>
      [] piece = "twilight_neo" ->
            <<"t", "w", "i", "l", "i", "g", "h", "t", "_", "n", "e", "o">>
      [] piece = "blob" -> <<"b", "l", "o", "b">>
      [] piece = "greedy" -> <<"g", "r", "e", "e", "d", "y">>
      [] piece = "DD" -> <<"D", "D">>
      [] piece = "None" -> <<"N", "o", "n", "e">>
      [] OTHER -> <<piece>>

\* 'literal %s%s' % (...) and f'literal {...}': the pieces, concatenated
RECURSIVE str_format(_)
str_format(pieces) ==
    IF pieces = <<>> THEN <<>>
    ELSE str_chars(Head(pieces)) \o str_format(Tail(pieces))

\* sub in text
str_in(sub, text) ==
    \E k \in 0..(Len(text) - Len(sub)) : SubSeq(text, k + 1, k + Len(sub)) = sub

\* a survey ignores the observations whose note includes one of its ignore_obs
Ignores(s, note) ==
    \E k \in 1..Len(s.ignore_obs) :
        str_in(str_chars(s.ignore_obs[k]), str_format(note))

BlobGroups == {"blobs", "twi_blobs"}

\* C20: in both scripts every survey of generate_blobs and generate_twi_blobs
\* has a note that contains 'blob', an entry of the ignore_obs ['DD',
\* 'greedy', 'blob'] of every NEO survey; every NEO survey has the note
\* 'twilight_neo', an entry of the ignore_obs ['DD', 'twilight_neo'] of every
\* greedy, blob and twilight blob survey.
C20_NotesMatchIgnoreLists ==
    /\ \A g \in BlobGroups : \A i \in 1..Len(groups[g]) :
           /\ str_in(str_chars("blob"), str_format(groups[g][i].survey_note))
           /\ \A j \in 1..Len(groups.neo) :
                  Ignores(groups.neo[j], groups[g][i].survey_note)
    /\ \A j \in 1..Len(groups.neo) :
           /\ groups.neo[j].ignore_obs = <<"DD", "greedy", "blob">>
           /\ groups.neo[j].survey_note = <<"twilight_neo">>
    /\ \A g \in BlobGroups \cup {"greedy"} : \A i \in 1..Len(groups[g]) :
           /\ groups[g][i].ignore_obs = <<"DD", "twilight_neo">>
           /\ \A j \in 1..Len(groups.neo) :
                  Ignores(groups[g][i], groups.neo[j].survey_note)

\* a run of euclid_smudge.py built the four groups
C20_Witness ==
    /\ script = "euclid"
    /\ pc = "done"
    /\ Len(groups.neo) = 3
    /\ Len(groups.blobs) = 7
    /\ Len(groups.twi_blobs) = 4
    /\ Len(groups.greedy) = 4
    /\ str_format(groups.blobs[1].survey_note) = <<"b", "l", "o", "b", ",", " ", "u", "g">>

----------------------------------------------------------------------------
(* A --neo_night_pattern without a pattern (checked under Spec) *)

\* statements of the run before the pattern lookup has been executed
BeforeLookupDone == {"git_hash", "rubin_hash", "fileroot", "pattern"}

\* C21: with --neo_night_pattern outside 1..7 the run never gets past the
\* pattern lookup: once the lookup has been executed the script has ended
\* with the uncaught KeyError raised there, no pattern (default or other) is
\* bound, no footprint and no survey group has been built and the simulation
\* driver has not been called.
C21_BadNightPatternEndsRun ==
    args.neo_night_pattern \notin 1..7 =>
        /\ neo_night_pattern = <<>>
        /\ reverse_neo_night_pattern = <<>>
        /\ fp_step = 0
        /\ pix_labels = empty_labels
        /\ built_order = <<>>
        /\ \A g \in GroupNames : groups[g] = <<>>
        /\ sim_calls = <<>>
        /\ pc \in BeforeLookupDone \cup {"crashed"}
        /\ (pc = "crashed" /\ RaisedAt("git_hash") \cup RaisedAt("rubin_hash")
                                  \subseteq {i \in 1..Len(raised) :
                                                IsCaughtKind(raised[i])}) =>
               raised[Len(raised)] = [at |-> "pattern", exc |-> "KeyError"]

\* a run with --neo_night_pattern 8 got its hashes and ended at the lookup
C21_Witness ==
    /\ args.neo_night_pattern = 8
    /\ pc = "crashed"
    /\ raised = <<[at |-> "pattern", exc |-> "KeyError"]>>
    /\ extra_info.git_hash = <<"<HEAD>">>
    /\ fileroot # <<>>

----------------------------------------------------------------------------
(* The generators of the two scripts compared (checked under SpecGen) *)

\* a list of surveys without the survey_name and survey_note strings
WithoutNames(surveys) ==
    [i \in 1..Len(surveys) |->
        [surveys[i] EXCEPT !.survey_name = <<>>, !.survey_note = <<>>]]

\* what the same generator of the other script returns for the arguments drawn
OtherScriptResult ==
    CASE gen_called = "draft2.gen_GreedySurveys" ->
            euclid_gen_GreedySurveys(
                GreedyArgs(euclid_gen_GreedySurveys_defaults, gen_args))
      [] gen_called = "euclid.gen_GreedySurveys" ->
            gen_GreedySurveys(GreedyArgs(gen_GreedySurveys_defaults, gen_args))
      [] gen_called = "draft2.generate_blobs" ->
            euclid_generate_blobs(
                BlobArgs(euclid_generate_blobs_defaults, gen_args))
      [] gen_called = "euclid.generate_blobs" ->
            generate_blobs(BlobArgs(generate_blobs_defaults, gen_args))
      [] gen_called = "draft2.generate_twi_blobs" ->
            euclid_generate_twi_blobs(
                TwiArgs(euclid_generate_twi_blobs_defaults, gen_args))
      [] gen_called = "euclid.generate_twi_blobs" ->
            generate_twi_blobs(TwiArgs(generate_twi_blobs_defaults, gen_args))
      [] gen_called = "draft2.generate_twilight_neo" ->
            euclid_generate_twilight_neo(
                NeoArgs(euclid_generate_twilight_neo_defaults, gen_args))
      [] gen_called = "euclid.generate_twilight_neo" ->
            generate_twilight_neo(
                NeoArgs(generate_twilight_neo_defaults, gen_args))

\* C22: for equal arguments the four generators of draft2_uzy_named.py and of
\* euclid_smudge.py return the same number of surveys with the same ordered
\* (basis function, filter, weight) terms, the same ordered detailers and the
\* same survey parameters; only survey_name and survey_note differ.
C22_ScriptsBuildSameSurveys ==
    gen_called \in GreedyCalls \cup BlobCalls \cup TwiCalls \cup NeoCalls =>
        /\ Len(gen_result) = Len(OtherScriptResult)
        /\ WithoutNames(gen_result) = WithoutNames(OtherScriptResult)

\* generate_blobs of draft2_uzy_named.py returned a paired and an unpaired u
\* survey whose names differ from those euclid_smudge.py gives them
C22_Witness ==
    /\ gen_called = "draft2.generate_blobs"
    /\ Len(gen_result) = 2
    /\ gen_result[1].filtername2 # None
    /\ gen_result[2].filtername1 = "u"
    /\ gen_result[2].filtername2 = None
    /\ gen_result[1].survey_note # OtherScriptResult[1].survey_note
    /\ gen_result[1].survey_name # OtherScriptResult[1].survey_name

====
